---- MODULE Spec2Model ----
(***************************************************************************)
(* Model of the falco event codec of falcosecurity/plugin-sdk-rs: the      *)
(* field codecs of falco_event, the per-event-kind writer and reader that  *)
(* falco_event_derive generates, and open decode (RawEvent::load_any).     *)
(*                                                                         *)
(* Bytes are naturals below 256 and a byte slice is a sequence of bytes.   *)
(* A Rust `&mut &[u8]` cursor is modelled by the sequence of bytes that    *)
(* are still unread: a decoder returns its value and the remaining bytes.  *)
(* A 64-bit integer is kept as four 16-bit limbs, least significant first, *)
(* because the model checker's integers are 32 bits wide.                  *)
(***************************************************************************)
EXTENDS Integers, Sequences, FiniteSets, TLC

(***************************************************************************)
(* Bounds of the model.                                                    *)
(***************************************************************************)
\* longest string or path in an event that is written
MaxStr == 2
\* longest byte buffer in an event that is written
MaxBuf == 3
\* most elements in a string array or string-pair array that is written
MaxItems == 2
\* most bytes cut from the end of a written event before it is decoded
MaxCut == 3

(***************************************************************************)
(* Sequences of bytes and little-endian integers.                          *)
(***************************************************************************)
Min2(a, b) == IF a < b THEN a ELSE b

SubSeqFrom(s, i) == SubSeq(s, i, Len(s))

Take(s, n) == SubSeq(s, 1, n)

RECURSIVE SumSeq(_)
SumSeq(s) == IF s = <<>> THEN 0 ELSE Head(s) + SumSeq(Tail(s))

\* the w little-endian bytes of n (byteorder write_uN / uN::write)
RECURSIVE le_bytes(_, _)
le_bytes(n, w) == IF w = 0 THEN <<>> ELSE <<n % 256>> \o le_bytes(n \div 256, w - 1)

\* the integer a little-endian byte sequence stands for (byteorder read_uN)
RECURSIVE le_value(_)
le_value(s) == IF s = <<>> THEN 0 ELSE Head(s) + 256 * le_value(Tail(s))

\* position of the first zero byte of s, 0 when there is none
RECURSIVE FirstNul(_, _)
FirstNul(s, i) ==
    IF i > Len(s) THEN 0 ELSE IF s[i] = 0 THEN i ELSE FirstNul(s, i + 1)

(***************************************************************************)
(* Results of FromBytes::from_bytes: err = "" is Ok, val holds the value   *)
(* in a one-element tuple and rest is what the cursor still holds.         *)
(***************************************************************************)
DecOk(v, rest) == [err |-> "", val |-> <<v>>, rest |-> rest]

DecErr(e, rest) == [err |-> e, val |-> <<>>, rest |-> rest]

(***************************************************************************)
(* Primitive codecs.                                                       *)
(***************************************************************************)
\* a 32-bit value is the pair of its 16-bit halves, the low half first
u32_from_bytes(buf) ==
    IF Len(buf) < 4 THEN DecErr("Truncated", buf)
    ELSE DecOk(<<le_value(SubSeq(buf, 1, 2)), le_value(SubSeq(buf, 3, 4))>>,
               SubSeqFrom(buf, 5))

u32_binary_size(v) == 4

u32_write(v) == le_bytes(v[1], 2) \o le_bytes(v[2], 2)

u64_binary_size(v) == 8

u64_write(v) == le_bytes(v[1], 2) \o le_bytes(v[2], 2) \o le_bytes(v[3], 2) \o le_bytes(v[4], 2)

u64_from_bytes(buf) ==
    IF Len(buf) < 8 THEN DecErr("Truncated", buf)
    ELSE DecOk(<<le_value(SubSeq(buf, 1, 2)), le_value(SubSeq(buf, 3, 4)),
                 le_value(SubSeq(buf, 5, 6)), le_value(SubSeq(buf, 7, 8))>>,
               SubSeqFrom(buf, 9))

\* a small number as a 64-bit value
U64(n) == <<n, 0, 0, 0>>

\* a faulty decoder that takes the value 1 alone for true
bool_from_bytes_one(buf) ==
    LET r == u32_from_bytes(buf)
    IN  IF r.err # "" THEN r ELSE DecOk(r.val[1] = <<1, 0>>, r.rest)

\* impl FromBytes for bool
bool_from_bytes(buf) ==
    LET r == u32_from_bytes(buf)
    IN  IF r.err # "" THEN r ELSE DecOk(r.val[1] # <<0, 0>>, r.rest)

bool_binary_size(b) == 4

bool_write(b) == le_bytes(IF b THEN 1 ELSE 0, 4)

\* impl FromBytes for SystemTime: a time is [before |-> it precedes the
\* epoch, ns |-> its distance from the epoch in nanoseconds]
SystemTime_from_bytes(buf) ==
    LET r == u64_from_bytes(buf)
    IN  IF r.err # "" THEN r ELSE DecOk([before |-> FALSE, ns |-> r.val[1]], r.rest)

SystemTime_binary_size(t) == 8

\* a faulty write that takes the distance from the epoch of any time
SystemTime_write_abs(t) == [err |-> "", bytes |-> u64_write(t.ns)]

\* write returns [err, bytes]: duration_since(UNIX_EPOCH) fails for a time
\* that precedes the epoch and nothing is written
SystemTime_write(t) ==
    IF t.before /\ t.ns # U64(0) THEN [err |-> "io", bytes |-> <<>>]
    ELSE [err |-> "", bytes |-> u64_write(t.ns)]

(***************************************************************************)
(* Strings, byte buffers and arrays of strings.                            *)
(***************************************************************************)
CStr_binary_size(s) == Len(s) + 1

CStr_write(s) == s \o <<0>>

CStr_from_bytes(buf) ==
    LET n == FirstNul(buf, 1)
    IN  IF n = 0 THEN DecErr("Truncated", buf)
        ELSE DecOk(Take(buf, n - 1), SubSeqFrom(buf, n + 1))

bytebuf_binary_size(b) == Len(b)

bytebuf_write(b) == b

bytebuf_from_bytes(buf) == DecOk(buf, <<>>)

\* impl ToBytes for Vec<&CStr>
RECURSIVE CStrArray_binary_size(_)
CStrArray_binary_size(a) ==
    IF a = <<>> THEN 0 ELSE CStr_binary_size(Head(a)) + CStrArray_binary_size(Tail(a))

RECURSIVE CStrArray_write(_)
CStrArray_write(a) ==
    IF a = <<>> THEN <<>> ELSE CStr_write(Head(a)) \o CStrArray_write(Tail(a))

\* a faulty loop that takes an empty string for the end of the array
RECURSIVE CStrArray_loop_stop(_, _)
CStrArray_loop_stop(buf, data) ==
    IF buf = <<>> THEN DecOk(data, buf)
    ELSE LET r == CStr_from_bytes(buf)
         IN  IF r.err # "" THEN DecErr(r.err, r.rest)
             ELSE IF r.val[1] = <<>> THEN DecOk(data, <<>>)
             ELSE CStrArray_loop_stop(r.rest, Append(data, r.val[1]))

\* a faulty loop that returns the strings read so far when one fails
RECURSIVE CStrArray_loop_partial(_, _)
CStrArray_loop_partial(buf, data) ==
    IF buf = <<>> THEN DecOk(data, buf)
    ELSE LET r == CStr_from_bytes(buf)
         IN  IF r.err # "" THEN DecOk(data, <<>>)
             ELSE CStrArray_loop_partial(r.rest, Append(data, r.val[1]))

\* impl FromBytes for Vec<&CStr>: while !buf.is_empty() { data.push(from_bytes(buf)?) }
RECURSIVE CStrArray_loop(_, _)
CStrArray_loop(buf, data) ==
    IF buf = <<>> THEN DecOk(data, buf)
    ELSE LET r == CStr_from_bytes(buf)
         IN  IF r.err # "" THEN DecErr(r.err, r.rest)
             ELSE CStrArray_loop(r.rest, Append(data, r.val[1]))

CStrArray_from_bytes(buf) == CStrArray_loop(buf, <<>>)

\* impl ToBytes for Vec<(&CStr, &CStr)>
RECURSIVE CStrPairArray_binary_size(_)
CStrPairArray_binary_size(a) ==
    IF a = <<>> THEN 0
    ELSE CStr_binary_size(Head(a)[1]) + CStr_binary_size(Head(a)[2])
         + CStrPairArray_binary_size(Tail(a))

RECURSIVE CStrPairArray_write(_)
CStrPairArray_write(a) ==
    IF a = <<>> THEN <<>>
    ELSE CStr_write(Head(a)[1]) \o CStr_write(Head(a)[2]) \o CStrPairArray_write(Tail(a))

\* a faulty decoder that drops a string left without a partner
CStrPairArray_from_bytes_lax(buf) ==
    LET flat == CStrArray_from_bytes(buf)
    IN  IF flat.err # "" THEN flat
        ELSE LET f == flat.val[1]
                 data == [i \in 1..(Len(f) \div 2) |-> <<f[2 * i - 1], f[2 * i]>>]
             IN  DecOk(data, flat.rest)

\* impl FromBytes for Vec<(&CStr, &CStr)>: chunks_exact(2) over the flat array
CStrPairArray_from_bytes(buf) ==
    LET flat == CStrArray_from_bytes(buf)
    IN  IF flat.err # "" THEN flat
        ELSE LET f == flat.val[1]
                 data == [i \in 1..(Len(f) \div 2) |-> <<f[2 * i - 1], f[2 * i]>>]
             IN  IF Len(f) % 2 # 0 THEN DecErr("OddPairItemCount", flat.rest)
                 ELSE DecOk(data, flat.rest)

(***************************************************************************)
(* Paths, endpoints and socket addresses.                                  *)
(***************************************************************************)
UnixPath_binary_size(p) == Len(p) + 1

UnixPath_write(p) == p \o <<0>>

UnixPath_from_bytes(buf) == CStr_from_bytes(buf)

\* an endpoint is [addr |-> the address octets, port |-> the port number]
Endpoint_binary_size(e) == Len(e.addr) + 2

Endpoint_write(e) == e.addr \o le_bytes(e.port, 2)

Endpoint_from_bytes(buf, n) ==
    IF Len(buf) < n + 2 THEN DecErr("Truncated", buf)
    ELSE DecOk([addr |-> Take(buf, n), port |-> le_value(SubSeq(buf, n + 1, n + 2))],
               SubSeqFrom(buf, n + 3))

PPM_AF_LOCAL == 1

PPM_AF_INET == 2

PPM_AF_INET6 == 10

\* enum SockAddr: fam is the variant; af is the family byte of Other; data is
\* the path (Unix), the address octets (V4, V6) or the raw bytes (Other)
SockAddr_Unix(p) == [fam |-> "Unix", af |-> PPM_AF_LOCAL, data |-> p, port |-> 0]

SockAddr_V4(e) == [fam |-> "V4", af |-> PPM_AF_INET, data |-> e.addr, port |-> e.port]

SockAddr_V6(e) == [fam |-> "V6", af |-> PPM_AF_INET6, data |-> e.addr, port |-> e.port]

SockAddr_Other(af, raw) == [fam |-> "Other", af |-> af, data |-> raw, port |-> 0]

EndpointOf(a) == [addr |-> a.data, port |-> a.port]

\* a faulty size that leaves the family byte out
SockAddr_binary_size_notag(a) ==
    CASE a.fam = "Unix" -> UnixPath_binary_size(a.data)
      [] a.fam = "V4" -> Endpoint_binary_size(EndpointOf(a))
      [] a.fam = "V6" -> Endpoint_binary_size(EndpointOf(a))
      [] OTHER -> Len(a.data)

\* impl ToBytes for SockAddr
SockAddr_binary_size(a) ==
    CASE a.fam = "Unix" -> 1 + UnixPath_binary_size(a.data)
      [] a.fam = "V4" -> 1 + Endpoint_binary_size(EndpointOf(a))
      [] a.fam = "V6" -> 1 + Endpoint_binary_size(EndpointOf(a))
      [] OTHER -> 1 + Len(a.data)

SockAddr_write(a) ==
    CASE a.fam = "Unix" -> <<PPM_AF_LOCAL>> \o UnixPath_write(a.data)
      [] a.fam = "V4" -> <<PPM_AF_INET>> \o Endpoint_write(EndpointOf(a))
      [] a.fam = "V6" -> <<PPM_AF_INET6>> \o Endpoint_write(EndpointOf(a))
      [] OTHER -> <<a.af>> \o bytebuf_write(a.data)

\* a faulty decoder whose catch-all arm drops the bytes after the family
SockAddr_from_bytes_norest(buf) ==
    IF buf = <<>> THEN DecErr("Truncated", buf)
    ELSE LET variant == Head(buf)
             b == Tail(buf)
         IN  CASE variant = PPM_AF_LOCAL -> DecOk(SockAddr_Unix(b), <<>>)
               [] variant = PPM_AF_INET ->
                    LET r == Endpoint_from_bytes(b, 4)
                    IN  IF r.err # "" THEN r ELSE DecOk(SockAddr_V4(r.val[1]), r.rest)
               [] variant = PPM_AF_INET6 ->
                    LET r == Endpoint_from_bytes(b, 16)
                    IN  IF r.err # "" THEN r ELSE DecOk(SockAddr_V6(r.val[1]), r.rest)
               [] OTHER -> DecOk(SockAddr_Other(variant, <<>>), <<>>)

\* impl FromBytes for SockAddr: the Unix arm takes the whole rest of the
\* cursor as the path; the Other arm copies the rest and leaves the cursor
SockAddr_from_bytes(buf) ==
    IF buf = <<>> THEN DecErr("Truncated", buf)
    ELSE LET variant == Head(buf)
             b == Tail(buf)
         IN  CASE variant = PPM_AF_LOCAL -> DecOk(SockAddr_Unix(b), <<>>)
               [] variant = PPM_AF_INET ->
                    LET r == Endpoint_from_bytes(b, 4)
                    IN  IF r.err # "" THEN r ELSE DecOk(SockAddr_V4(r.val[1]), r.rest)
               [] variant = PPM_AF_INET6 ->
                    LET r == Endpoint_from_bytes(b, 16)
                    IN  IF r.err # "" THEN r ELSE DecOk(SockAddr_V6(r.val[1]), r.rest)
               [] OTHER -> DecOk(SockAddr_Other(variant, b), b)

(***************************************************************************)
(* Dispatch on the declared type of a field, and optional fields.          *)
(***************************************************************************)
FieldTypes ==
    {"PT_UINT32", "PT_UINT64", "PT_BOOL", "PT_ABSTIME", "PT_CHARBUF", "PT_BYTEBUF",
     "PT_CHARBUFARRAY", "PT_CHARBUF_PAIR_ARRAY", "PT_SOCKADDR"}

binary_size(ty, v) ==
    CASE ty = "PT_UINT32" -> u32_binary_size(v)
      [] ty = "PT_UINT64" -> u64_binary_size(v)
      [] ty = "PT_BOOL" -> bool_binary_size(v)
      [] ty = "PT_ABSTIME" -> SystemTime_binary_size(v)
      [] ty = "PT_CHARBUF" -> CStr_binary_size(v)
      [] ty = "PT_BYTEBUF" -> bytebuf_binary_size(v)
      [] ty = "PT_CHARBUFARRAY" -> CStrArray_binary_size(v)
      [] ty = "PT_CHARBUF_PAIR_ARRAY" -> CStrPairArray_binary_size(v)
      [] ty = "PT_SOCKADDR" -> SockAddr_binary_size(v)

\* ToBytes::write: [err |-> "" when Ok, bytes |-> what reached the writer]
WrOk(bytes) == [err |-> "", bytes |-> bytes]

write(ty, v) ==
    CASE ty = "PT_UINT32" -> WrOk(u32_write(v))
      [] ty = "PT_UINT64" -> WrOk(u64_write(v))
      [] ty = "PT_BOOL" -> WrOk(bool_write(v))
      [] ty = "PT_ABSTIME" -> SystemTime_write(v)
      [] ty = "PT_CHARBUF" -> WrOk(CStr_write(v))
      [] ty = "PT_BYTEBUF" -> WrOk(bytebuf_write(v))
      [] ty = "PT_CHARBUFARRAY" -> WrOk(CStrArray_write(v))
      [] ty = "PT_CHARBUF_PAIR_ARRAY" -> WrOk(CStrPairArray_write(v))
      [] ty = "PT_SOCKADDR" -> WrOk(SockAddr_write(v))

from_bytes(ty, buf) ==
    CASE ty = "PT_UINT32" -> u32_from_bytes(buf)
      [] ty = "PT_UINT64" -> u64_from_bytes(buf)
      [] ty = "PT_BOOL" -> bool_from_bytes(buf)
      [] ty = "PT_ABSTIME" -> SystemTime_from_bytes(buf)
      [] ty = "PT_CHARBUF" -> CStr_from_bytes(buf)
      [] ty = "PT_BYTEBUF" -> bytebuf_from_bytes(buf)
      [] ty = "PT_CHARBUFARRAY" -> CStrArray_from_bytes(buf)
      [] ty = "PT_CHARBUF_PAIR_ARRAY" -> CStrPairArray_from_bytes(buf)
      [] ty = "PT_SOCKADDR" -> SockAddr_from_bytes(buf)

\* an optional field is <<>> (None) or <<v>> (Some(v))
None == <<>>

Some(v) == <<v>>

\* impl ToBytes for Option<T>
Option_binary_size(ty, o) == IF o = None THEN 0 ELSE binary_size(ty, o[1])

Option_write(ty, o) == IF o = None THEN WrOk(<<>>) ELSE write(ty, o[1])

\* impl FromBytes for Option<T>, from_maybe_bytes: maybe is None when the
\* event has no slot for the field, Some(slot) otherwise.  The result holds
\* the optional value, the slot cursor afterwards and whether T::from_bytes ran.
from_maybe_bytes(ty, maybe) ==
    CASE maybe = None -> [err |-> "", val |-> None, rest |-> None, called |-> FALSE]
      [] maybe = Some(<<>>) -> [err |-> "", val |-> None, rest |-> maybe, called |-> FALSE]
      [] OTHER ->
            LET r == from_bytes(ty, maybe[1])
            IN  [err |-> r.err, val |-> r.val, rest |-> Some(r.rest), called |-> TRUE]

(***************************************************************************)
(* A dynamic parameter: the input of the dynamic_param! macro is a list of *)
(* variants, each a discriminant with the type of its value.               *)
(***************************************************************************)
DynVariants == (0 :> "PT_BYTEBUF") @@ (1 :> "PT_BOOL") @@ (3 :> "PT_UINT64")

\* a value of the generated enum: the variant and its value
Dyn(tag, val) == [tag |-> tag, val |-> val]

\* variant_binary_size
Dyn_binary_size(v) == 1 + binary_size(DynVariants[v.tag], v.val)

\* variant_write: the discriminant as one byte, then the value
Dyn_write(v) == [write(DynVariants[v.tag], v.val) EXCEPT !.bytes = <<v.tag>> \o @]

\* variant_read, with r the outcome of from_bytes for the type of the variant
Dyn_variant_read(tag, r) == IF r.err # "" THEN r ELSE DecOk(Dyn(tag, r.val[1]), r.rest)

\* a faulty decoder that reads an undeclared discriminant as the first variant
Dyn_from_bytes_first(buf) ==
    IF buf = <<>> THEN DecErr("Truncated", buf)
    ELSE IF Head(buf) \in DOMAIN DynVariants
    THEN Dyn_variant_read(Head(buf), from_bytes(DynVariants[Head(buf)], Tail(buf)))
    ELSE Dyn_variant_read(0, from_bytes(DynVariants[0], Tail(buf)))

\* the generated from_bytes: read_u8, then the match on the discriminant
Dyn_from_bytes(buf) ==
    IF buf = <<>> THEN DecErr("Truncated", buf)
    ELSE IF Head(buf) \in DOMAIN DynVariants
    THEN Dyn_variant_read(Head(buf), from_bytes(DynVariants[Head(buf)], Tail(buf)))
    ELSE DecErr("InvalidDynDiscriminant", Tail(buf))

\* the codecs of the field types and of the dynamic parameter together
Codec_binary_size(ty, v) == IF ty = "PT_DYN" THEN Dyn_binary_size(v) ELSE binary_size(ty, v)

Codec_write(ty, v) == IF ty = "PT_DYN" THEN Dyn_write(v) ELSE write(ty, v)

Codec_from_bytes(ty, b) == IF ty = "PT_DYN" THEN Dyn_from_bytes(b) ELSE from_bytes(ty, b)

(***************************************************************************)
(* The registry of event kinds: the input of the event_info! macro.  Each  *)
(* kind has a numeric code, a name, the EF_LARGE_PAYLOAD flag and its      *)
(* declared fields in order.                                               *)
(***************************************************************************)
Arg(name, ty) == [name |-> name, ty |-> ty]

\* the code of the async event
PPME_ASYNCEVENT_E == 402

EventInfo ==
    (10 :> [name |-> "read", large |-> FALSE,
            args |-> <<Arg("res", "PT_UINT64"), Arg("name", "PT_CHARBUF"),
                       Arg("data", "PT_BYTEBUF")>>]) @@
    (11 :> [name |-> "pluginevent", large |-> TRUE,
            args |-> <<Arg("flag", "PT_BOOL"), Arg("event_data", "PT_BYTEBUF")>>]) @@
    (12 :> [name |-> "execve", large |-> FALSE,
            args |-> <<Arg("args", "PT_CHARBUFARRAY"),
                       Arg("env", "PT_CHARBUF_PAIR_ARRAY")>>]) @@
    (13 :> [name |-> "connect", large |-> FALSE,
            args |-> <<Arg("addr", "PT_SOCKADDR")>>]) @@
    (14 :> [name |-> "timer", large |-> FALSE,
            args |-> <<Arg("deadline", "PT_ABSTIME")>>]) @@
    (PPME_ASYNCEVENT_E :>
           [name |-> "asyncevent", large |-> TRUE,
            args |-> <<Arg("plugin_id", "PT_UINT32"), Arg("name", "PT_CHARBUF"),
                       Arg("data", "PT_BYTEBUF")>>])

\* the codes of enum EventType
EventType == DOMAIN EventInfo

\* EventPayload::LARGE
LARGE(code) == EventInfo[code].large

\* size_of::<EventPayload::LengthType>()
LengthSize(code) == IF LARGE(code) THEN 4 ELSE 2

NumFields(code) == Len(EventInfo[code].args)

FieldTy(code, i) == EventInfo[code].args[i].ty

FieldName(code, i) == EventInfo[code].args[i].name

(***************************************************************************)
(* Writing an event: the generated impl PayloadToBytes.                    *)
(***************************************************************************)
HeaderSize == 26

\* LengthType::try_from(usize).is_ok() for u16 (w = 2) and u32 (w = 4)
LengthFits(size, w) ==
    IF w = 2 THEN size < 65536 ELSE (size \div 65536) < 65536

\* EventMetadata::write_header_with_lengths: timestamp, thread id, total
\* length, event type, number of fields, then the length table
write_header_with_lengths(metadata, event_type, lengths, w) ==
    u64_write(metadata.ts) \o u64_write(metadata.tid)
    \o le_bytes(HeaderSize + w * Len(lengths) + SumSeq(lengths), 4)
    \o le_bytes(event_type, 2) \o le_bytes(Len(lengths), 4)
    \o [j \in 1..(w * Len(lengths)) |->
            le_bytes(lengths[((j - 1) \div w) + 1], w)[((j - 1) % w) + 1]]

\* a faulty binary_size that forgets the length table
PayloadToBytes_binary_size_bare(code, fields) ==
    HeaderSize
    + SumSeq([i \in 1..NumFields(code) |-> Option_binary_size(FieldTy(code, i), fields[i])])

\* the generated binary_size
PayloadToBytes_binary_size(code, fields) ==
    HeaderSize + LengthSize(code) * NumFields(code)
    + SumSeq([i \in 1..NumFields(code) |-> Option_binary_size(FieldTy(code, i), fields[i])])

\* #(#field_writes)*: self.name.write(&mut writer)? for each field in turn
RECURSIVE field_writes(_, _, _, _)
field_writes(code, fields, i, out) ==
    IF i > NumFields(code) THEN [status |-> "ok", bytes |-> out]
    ELSE LET r == Option_write(FieldTy(code, i), fields[i])
         IN  IF r.err # "" THEN [status |-> "err", bytes |-> out \o r.bytes]
             ELSE field_writes(code, fields, i + 1, out \o r.bytes)

\* a faulty write that stores every size in the table as it comes, reduced to
\* the width of an entry
PayloadToBytes_write_wrapping(code, fields, metadata) ==
    field_writes(code, fields, 1,
                 write_header_with_lengths(metadata, code,
                    [i \in 1..NumFields(code) |->
                        Option_binary_size(FieldTy(code, i), fields[i])],
                    LengthSize(code)))

\* a faulty write whose length table lists the sizes in reverse order
PayloadToBytes_write_swapped(code, fields, metadata) ==
    LET w == LengthSize(code)
        n == NumFields(code)
        lengths == [i \in 1..n |->
                        Option_binary_size(FieldTy(code, n + 1 - i), fields[n + 1 - i])]
    IN  field_writes(code, fields, 1,
                     write_header_with_lengths(metadata, code, lengths, w))

\* the generated write: status is "ok", "err" (an io::Error was returned) or
\* "panic" (try_from(..).unwrap() on a size that does not fit); bytes is what
\* reached the writer
PayloadToBytes_write(code, fields, metadata) ==
    LET w == LengthSize(code)
        lengths == [i \in 1..NumFields(code) |->
                        Option_binary_size(FieldTy(code, i), fields[i])]
    IN  IF \E i \in 1..NumFields(code) : ~LengthFits(lengths[i], w)
        THEN [status |-> "panic", bytes |-> <<>>]
        ELSE field_writes(code, fields, 1,
                          write_header_with_lengths(metadata, code, lengths, w))

(***************************************************************************)
(* Reading an event.                                                       *)
(***************************************************************************)
\* PayloadFromBytesError, with unused parts empty
Error(kind, name, inner, code) == [kind |-> kind, name |-> name, inner |-> inner, code |-> code]

NoError == Error("", "", "", 0)

\* struct EventMetadata; NoMetadata stands where a result carries none
NoMetadata == [ts |-> U64(0), tid |-> U64(0)]

\* RawEvent::from: splits the fixed header off the buffer
RawEvent_from(buf) ==
    IF Len(buf) < HeaderSize
    THEN [err |-> "io", metadata |-> NoMetadata, len |-> 0,
          event_type |-> 0, nparams |-> 0, payload |-> <<>>]
    ELSE [err |-> "",
          metadata |-> [ts |-> u64_from_bytes(SubSeq(buf, 1, 8)).val[1],
                        tid |-> u64_from_bytes(SubSeq(buf, 9, 16)).val[1]],
          len |-> le_value(SubSeq(buf, 17, 20)),
          event_type |-> le_value(SubSeq(buf, 21, 22)),
          nparams |-> le_value(SubSeq(buf, 23, 26)),
          payload |-> SubSeqFrom(buf, 27)]

\* RawEvent::params::<T>: splits the payload into the length table and the
\* field data; fails when the payload is shorter than the table
params(raw, w) ==
    LET ll == raw.nparams * w
    IN  IF Len(raw.payload) < ll
        THEN [err |-> "Truncated", lengths |-> <<>>, params |-> <<>>, w |-> w]
        ELSE [err |-> "", lengths |-> Take(raw.payload, ll),
              params |-> SubSeqFrom(raw.payload, ll + 1), w |-> w]

\* ParamIter::next: item is None at the end of the table, else Some(slot),
\* or err = "Truncated" when the entry exceeds the bytes that are left
ParamIter_next(it) ==
    IF Len(it.lengths) < it.w
    THEN [err |-> "", item |-> None, it |-> it]
    ELSE LET len == le_value(Take(it.lengths, it.w))
             nit == [it EXCEPT !.lengths = SubSeqFrom(it.lengths, it.w + 1)]
         IN  IF len > Len(it.params)
             THEN [err |-> "Truncated", item |-> None, it |-> nit]
             ELSE [err |-> "", item |-> Some(Take(it.params, len)),
                   it |-> [nit EXCEPT !.params = SubSeqFrom(it.params, len + 1)]]

\* what happened to one field: the slot it got (None or Some(bytes)), whether
\* its decoder ran, the value read and the bytes left in the slot
Step(i, slot, called, val, left) ==
    [field |-> i, slot |-> slot, called |-> called, val |-> val, left |-> left]

ReadResult(err, fields, trace) ==
    [err |-> err, fields |-> fields, tableRead |-> TRUE, trace |-> trace]

\* a faulty end of an expansion that never looks at what the slot still holds
field_read_value_lax(code, i, nx, r) ==
    LET name == FieldName(code, i)
        left == IF r.rest = None THEN 0 ELSE Len(r.rest[1])
        step == Step(i, nx.item, r.called, r.val, left)
    IN  IF r.err # ""
        THEN [err |-> Error("NamedField", name, r.err, 0), val |-> None,
              it |-> nx.it, step |-> step]
        ELSE [err |-> NoError, val |-> r.val, it |-> nx.it, step |-> step]

\* the end of one expansion of field_reads, for declared field i, with nx
\* the outcome of params.next() and r the outcome of from_maybe_bytes: a
\* decoder error is wrapped in NamedField with the name of the field, and so
\* is LeftoverData when the slot still holds bytes
field_read_value(code, i, nx, r) ==
    LET name == FieldName(code, i)
        left == IF r.rest = None THEN 0 ELSE Len(r.rest[1])
        step == Step(i, nx.item, r.called, r.val, left)
    IN  IF r.err # ""
        THEN [err |-> Error("NamedField", name, r.err, 0), val |-> None,
              it |-> nx.it, step |-> step]
        ELSE IF left > 0
        THEN [err |-> Error("NamedField", name, "LeftoverData", 0), val |-> None,
              it |-> nx.it, step |-> step]
        ELSE [err |-> NoError, val |-> r.val, it |-> nx.it, step |-> step]

\* a faulty start of an expansion that hands every slot to the decoder of the
\* field type, an empty one too
field_read_slot_eager(code, i, nx) ==
    IF nx.err # ""
    THEN [err |-> Error("NamedField", FieldName(code, i), nx.err, 0), val |-> None,
          it |-> nx.it, step |-> Step(i, None, FALSE, None, 0)]
    ELSE IF nx.item = None
    THEN field_read_value(code, i, nx, from_maybe_bytes(FieldTy(code, i), None))
    ELSE field_read_value(code, i, nx,
            [from_bytes(FieldTy(code, i), nx.item[1]) EXCEPT !.rest = Some(@)]
                @@ [called |-> TRUE])

\* a faulty start of an expansion that takes a slot the iterator could not
\* extract for an absent field
field_read_slot_lenient(code, i, nx) ==
    IF nx.err # ""
    THEN [err |-> NoError, val |-> None, it |-> nx.it,
          step |-> Step(i, None, FALSE, None, 0)]
    ELSE field_read_value(code, i, nx, from_maybe_bytes(FieldTy(code, i), nx.item))

\* the start of one expansion, with nx the outcome of params.next(): an
\* error of the iterator is wrapped in NamedField with the name of the
\* field, otherwise the slot goes to from_maybe_bytes
field_read_slot(code, i, nx) ==
    IF nx.err # ""
    THEN [err |-> Error("NamedField", FieldName(code, i), nx.err, 0), val |-> None,
          it |-> nx.it, step |-> Step(i, None, FALSE, None, 0)]
    ELSE field_read_value(code, i, nx, from_maybe_bytes(FieldTy(code, i), nx.item))

\* one expansion of field_reads, for declared field i
field_read(code, it, i) == field_read_slot(code, i, ParamIter_next(it))

\* #(#field_reads)* followed by Ok(Name { fields }): the fields are read in
\* declaration order and the first error is returned at once (the ? of each
\* expansion, with r the outcome of the expansion for field i);
\* field_reads_partial is a faulty variant that returns the fields built so far
RECURSIVE field_reads(_, _, _, _, _)
field_reads_partial(code, i, fields, trace, r) ==
    IF r.err # NoError
    THEN ReadResult(r.err, fields, Append(trace, r.step))
    ELSE field_reads(code, r.it, i + 1, Append(fields, r.val), Append(trace, r.step))

field_reads_try(code, i, fields, trace, r) ==
    IF r.err # NoError
    THEN ReadResult(r.err, <<>>, Append(trace, r.step))
    ELSE field_reads(code, r.it, i + 1, Append(fields, r.val), Append(trace, r.step))

field_reads(code, it, i, fields, trace) ==
    IF i > NumFields(code) THEN ReadResult(NoError, fields, trace)
    ELSE field_reads_try(code, i, fields, trace, field_read(code, it, i))

\* PayloadFromBytes::read: the fields of a kind from a slot iterator
read(code, it) == field_reads(code, it, 1, <<>>, <<>>)

\* raw.params::<LengthType>()?, with p its outcome, then the fields
read_params(code, p) ==
    IF p.err # ""
    THEN ReadResult(Error(p.err, "", "", 0), <<>>, <<>>)
    ELSE read(code, [lengths |-> p.lengths, params |-> p.params, w |-> p.w])

\* a faulty parse without the comparison of the event type
parse_unchecked(raw, code) == read_params(code, params(raw, LengthSize(code)))

\* the generated FromRawEvent::parse (typed decode)
parse(raw, code) ==
    IF raw.event_type # code
    THEN [err |-> Error("TypeMismatch", "", "", 0), fields |-> <<>>,
          tableRead |-> FALSE, trace |-> <<>>]
    ELSE read_params(code, params(raw, LengthSize(code)))

\* a faulty arm with the two widths exchanged
enum_match_flipped(raw, code) ==
    IF LARGE(code) THEN read_params(code, params(raw, 2))
    ELSE read_params(code, params(raw, 4))

\* a faulty arm that reads a two-byte length table whatever the kind
enum_match_short(raw, code) == read_params(code, params(raw, 2))

\* one arm of the match in load_any: params::<u32>() for a large kind,
\* params::<u16>() otherwise, then read
enum_match(raw, code) ==
    IF LARGE(code) THEN read_params(code, params(raw, 4))
    ELSE read_params(code, params(raw, 2))

\* the AnyEvent of a successful arm with its metadata, or the error of the arm
load_any_arm(raw, r) ==
    [err |-> r.err, variant |-> IF r.err = NoError THEN raw.event_type ELSE 0,
     fields |-> r.fields,
     metadata |-> IF r.err = NoError THEN raw.metadata ELSE NoMetadata,
     tableRead |-> r.tableRead, trace |-> r.trace]

\* a faulty load_any whose error does not carry the code
load_any_nocode(raw) ==
    IF raw.event_type \in EventType
    THEN load_any_arm(raw, enum_match(raw, raw.event_type))
    ELSE [err |-> Error("UnsupportedEventType", "", "", 0), variant |-> 0,
          fields |-> <<>>, metadata |-> NoMetadata, tableRead |-> FALSE, trace |-> <<>>]

\* RawEvent::load_any (open decode): variant is the AnyEvent variant, 0 on error
load_any(raw) ==
    IF raw.event_type \in EventType
    THEN load_any_arm(raw, enum_match(raw, raw.event_type))
    ELSE [err |-> Error("UnsupportedEventType", "", "", raw.event_type), variant |-> 0,
          fields |-> <<>>, metadata |-> NoMetadata, tableRead |-> FALSE, trace |-> <<>>]

\* impl PayloadToBytes for AnyEvent: inner.write(metadata, writer)
AnyEvent_write(variant, fields, metadata) == PayloadToBytes_write(variant, fields, metadata)

(***************************************************************************)
(* The values the model writes and the buffers it decodes.  Every byte is  *)
(* below 128, so that a 32-bit little-endian value stays within 32-bit     *)
(* signed integers whatever bytes a damaged buffer puts into it.           *)
(***************************************************************************)
SeqsUpTo(S, n) == UNION {[1..k -> S] : k \in 0..n}

ShortStrs == SeqsUpTo({65}, 1)

SockAddrValues ==
    {SockAddr_Unix(p) : p \in SeqsUpTo({47}, MaxStr)}
    \cup {SockAddr_V4([addr |-> <<127, 0, 0, 1>>, port |-> 80]),
          SockAddr_V6([addr |-> [i \in 1..16 |-> IF i = 16 THEN 1 ELSE 0], port |-> 80])}
    \cup {SockAddr_Other(3, raw) : raw \in SeqsUpTo({65}, 1)}

Values(ty) ==
    CASE ty = "PT_UINT32" -> {<<5, 0>>}
      [] ty = "PT_UINT64" -> {U64(5)}
      [] ty = "PT_BOOL" -> BOOLEAN
      [] ty = "PT_ABSTIME" -> {[before |-> FALSE, ns |-> U64(5)], [before |-> TRUE, ns |-> U64(5)]}
      [] ty = "PT_CHARBUF" -> SeqsUpTo({65}, MaxStr)
      [] ty = "PT_BYTEBUF" -> SeqsUpTo({0, 65}, MaxBuf)
      [] ty = "PT_CHARBUFARRAY" -> SeqsUpTo(ShortStrs, MaxItems)
      [] ty = "PT_CHARBUF_PAIR_ARRAY" -> SeqsUpTo(ShortStrs \X ShortStrs, MaxItems)
      [] ty = "PT_SOCKADDR" -> SockAddrValues

OptionValues(ty) == {None} \cup {Some(v) : v \in Values(ty)}

\* every assignment of the declared fields of a kind
RECURSIVE Assignments(_, _)
Assignments(code, i) ==
    IF i = 0 THEN {<<>>}
    ELSE {Append(fs, o) : fs \in Assignments(code, i - 1),
                          o \in OptionValues(FieldTy(code, i))}

\* a byte buffer of n zero bytes, held as a slice is: by its length
ZeroBuf(n) == <<"zeros", n>>

\* the field a slot of an assignment stands for
Inflate(o) == IF Len(o) = 2 THEN Some([i \in 1..o[2] |-> 0]) ELSE o

\* the fields of a type, with byte buffers at the limit of a two-byte length
\* and one byte beyond it among them
WideValues(ty) ==
    IF ty = "PT_BYTEBUF" THEN OptionValues(ty) \cup {ZeroBuf(n) : n \in {65535, 65536}}
    ELSE OptionValues(ty)

RECURSIVE WideAssignments(_, _)
WideAssignments(code, i) ==
    IF i = 0 THEN {<<>>}
    ELSE {Append(fs, o) : fs \in WideAssignments(code, i - 1),
                          o \in WideValues(FieldTy(code, i))}

MetadataValues == {[ts |-> U64(260), tid |-> U64(1)]}

\* a code with no entry in the registry
UnknownCode == 99

\* the bytes of a buffer with the bytes from position at on replaced by repl
Patch(bytes, at, repl) ==
    [j \in 1..Len(bytes) |->
        IF j >= at /\ j < at + Len(repl) THEN repl[j - at + 1] ELSE bytes[j]]

\* entry i of the length table of a written event of kind code
TableEntry(bytes, code, i) ==
    le_value(SubSeq(bytes, HeaderSize + LengthSize(code) * (i - 1) + 1,
                    HeaderSize + LengthSize(code) * i))

\* the buffers a host can hand over for a written event: the bytes as
\* written, with the end cut off, with another event type, with a length
\* table entry or the field count off by one
Damaged(bytes, code) ==
    {Take(bytes, Len(bytes) - c) : c \in 1..Min2(MaxCut, Len(bytes))}
    \cup {Patch(bytes, 21, le_bytes(t, 2)) : t \in (EventType \cup {UnknownCode}) \ {code}}
    \cup UNION {{Patch(bytes, HeaderSize + LengthSize(code) * (i - 1) + 1,
                       le_bytes(TableEntry(bytes, code, i) + d, LengthSize(code))) :
                   d \in {x \in {-1, 1} : TableEntry(bytes, code, i) + x >= 0}} :
                 i \in 1..NumFields(code)}
    \cup {Patch(bytes, 23, le_bytes(NumFields(code) + d, 4)) : d \in {-1, 1}}

(***************************************************************************)
(* The state: an event is written to a sink, a buffer is received and      *)
(* viewed as a RawEvent, the raw event is decoded, and the decoded payload *)
(* is written again.                                                       *)
(***************************************************************************)
VARIABLES
    event,   \* the event to write: [code, fields, metadata]
    sink,    \* outcome of writing event: [status, bytes]
    buf,     \* the buffer handed to the decoder
    raw,     \* the RawEvent over buf
    dec,     \* outcome of the last decode of raw
    sink2,   \* outcome of writing the decoded payload again
    pc,
    cx,      \* one codec at work on one value or one slot
    bw,      \* one owned value and the view borrowed from it
    ah,      \* one plugin emitting async events through AsyncHandler
    rq,      \* the async plugin of the runner with its queue of events
    xk,      \* one extraction request and the key read from it
    xf,      \* one plugin answering extract_fields calls
    sp,      \* one source plugin instance with its batch of events
    fs       \* the FieldStorage of one plugin

\* the variables of the envelope and of the codecs
envVars == <<event, sink, buf, raw, dec, sink2, pc, cx>>

vars == <<envVars, bw, ah, rq, xk, xf, sp, fs>>

\* a part of the program that takes no part in a specification
Idle == [phase |-> "idle"]

NoSink == [status |-> "none", bytes |-> <<>>]

NoRaw == [err |-> "none", metadata |-> NoMetadata, len |-> 0, event_type |-> 0,
          nparams |-> 0, payload |-> <<>>]

NoDec == [op |-> "none", target |-> 0, err |-> NoError, variant |-> 0, fields |-> <<>>,
          metadata |-> NoMetadata, tableRead |-> FALSE, trace |-> <<>>]

\* what dec records of a typed decode into kind code with outcome r
Typed(code, r) ==
    [op |-> "parse", target |-> code, err |-> r.err,
     variant |-> IF r.err = NoError THEN code ELSE 0, fields |-> r.fields,
     metadata |-> IF r.err = NoError THEN raw.metadata ELSE NoMetadata,
     tableRead |-> r.tableRead, trace |-> r.trace]

\* what dec records of an open decode with outcome r
Open(r) ==
    [op |-> "load_any", target |-> 0, err |-> r.err, variant |-> r.variant,
     fields |-> r.fields, metadata |-> r.metadata,
     tableRead |-> r.tableRead, trace |-> r.trace]

NoEnc == [err |-> "none", bytes |-> <<>>]

NoRes == [err |-> "none", val |-> <<>>, rest |-> <<>>]

NoCx == [origin |-> "none", ty |-> "", value |-> <<>>, phase |-> "idle", enc |-> NoEnc,
         bytes |-> <<>>, res |-> NoRes, enc2 |-> NoEnc]

Init ==
    /\ \E code \in EventType :
         \E fields \in Assignments(code, NumFields(code)) :
           \E metadata \in MetadataValues :
             event = [code |-> code, fields |-> fields, metadata |-> metadata]
    /\ sink = NoSink
    /\ buf = <<>>
    /\ raw = NoRaw
    /\ dec = NoDec
    /\ sink2 = NoSink
    /\ pc = "start"
    /\ cx = NoCx
    /\ bw = Idle
    /\ ah = Idle
    /\ rq = Idle
    /\ xk = Idle
    /\ xf = Idle
    /\ sp = Idle
    /\ fs = Idle

\* PayloadToBytes::write of the event into an empty Vec<u8>
Write ==
    /\ pc = "start"
    /\ sink' = PayloadToBytes_write(event.code, event.fields, event.metadata)
    /\ pc' = "written"
    /\ UNCHANGED <<event, buf, raw, dec, sink2, cx, bw, ah, rq, xk, xf, sp, fs>>

\* the host hands over the written bytes unchanged
ReceiveIntact ==
    /\ pc = "written"
    /\ sink.status = "ok"
    /\ buf' = sink.bytes
    /\ pc' = "received"
    /\ UNCHANGED <<event, sink, raw, dec, sink2, cx, bw, ah, rq, xk, xf, sp, fs>>

\* the host hands over the written bytes damaged
ReceiveDamaged ==
    /\ pc = "written"
    /\ sink.status = "ok"
    /\ \E b \in Damaged(sink.bytes, event.code) : buf' = b
    /\ pc' = "received"
    /\ UNCHANGED <<event, sink, raw, dec, sink2, cx, bw, ah, rq, xk, xf, sp, fs>>

\* RawEvent::from(buf)
FromBuf ==
    /\ pc = "received"
    /\ raw' = RawEvent_from(buf)
    /\ pc' = IF raw'.err = "" THEN "raw" ELSE "rejected"
    /\ UNCHANGED <<event, sink, buf, dec, sink2, cx, bw, ah, rq, xk, xf, sp, fs>>

\* typed decode of raw into the structure of kind code
Parse(code) ==
    /\ pc \in {"raw", "decoded", "rewritten"}
    /\ dec' = Typed(code, parse(raw, code))
    /\ sink2' = NoSink
    /\ pc' = "decoded"
    /\ UNCHANGED <<event, sink, buf, raw, cx, bw, ah, rq, xk, xf, sp, fs>>

\* open decode of raw
LoadAny ==
    /\ pc \in {"raw", "decoded", "rewritten"}
    /\ dec' = Open(load_any(raw))
    /\ sink2' = NoSink
    /\ pc' = "decoded"
    /\ UNCHANGED <<event, sink, buf, raw, cx, bw, ah, rq, xk, xf, sp, fs>>

\* the decoded event is written again: the typed payload through its own
\* write, an AnyEvent through impl PayloadToBytes for AnyEvent
Rewrite ==
    /\ pc = "decoded"
    /\ dec.err = NoError
    /\ sink2' = IF dec.op = "load_any"
                THEN AnyEvent_write(dec.variant, dec.fields, dec.metadata)
                ELSE PayloadToBytes_write(dec.target, dec.fields, dec.metadata)
    /\ pc' = "rewritten"
    /\ UNCHANGED <<event, sink, buf, raw, dec, cx, bw, ah, rq, xk, xf, sp, fs>>

Next ==
    \/ Write
    \/ ReceiveIntact
    \/ ReceiveDamaged
    \/ FromBuf
    \/ \E code \in EventType : Parse(code)
    \/ LoadAny
    \/ Rewrite

Spec == Init /\ [][Next]_vars

\* the writer alone, over events that also hold byte buffers of 65535 and
\* 65536 bytes
WriteInit ==
    /\ \E code \in EventType :
         \E fields \in WideAssignments(code, NumFields(code)) :
           \E metadata \in MetadataValues :
             event = [code |-> code, fields |-> fields, metadata |-> metadata]
    /\ sink = NoSink
    /\ buf = <<>>
    /\ raw = NoRaw
    /\ dec = NoDec
    /\ sink2 = NoSink
    /\ pc = "start"
    /\ cx = NoCx
    /\ bw = Idle
    /\ ah = Idle
    /\ rq = Idle
    /\ xk = Idle
    /\ xf = Idle
    /\ sp = Idle
    /\ fs = Idle

\* the fields the writer is called with
WideFields == [i \in DOMAIN event.fields |-> Inflate(event.fields[i])]

\* PayloadToBytes::write of such an event into an empty Vec<u8>
WriteWide ==
    /\ pc = "start"
    /\ sink' = PayloadToBytes_write(event.code, WideFields, event.metadata)
    /\ pc' = "written"
    /\ UNCHANGED <<event, buf, raw, dec, sink2, cx, bw, ah, rq, xk, xf, sp, fs>>

WriteSpec == WriteInit /\ [][WriteWide]_vars

(***************************************************************************)
(* The codecs alone.  One codec works on one value, which it encodes,      *)
(* decodes and encodes again, or on one slot, which it decodes and whose   *)
(* value it encodes.                                                       *)
(***************************************************************************)
MaxSlot == 5

CodecTypes == FieldTypes \cup {"PT_DYN"}

\* a value under work and a slot under work
OfValue(ty, v) ==
    [NoCx EXCEPT !.origin = "value", !.ty = ty, !.value = <<v>>, !.phase = "value"]

OfSlot(ty, b) ==
    [NoCx EXCEPT !.origin = "slot", !.ty = ty, !.bytes = b, !.phase = "bytes"]

\* the slots: zero bytes, the discriminants and address families 1 and 2,
\* and a byte that is neither
Slots == SeqsUpTo({0, 1, 2, 65}, MaxSlot)

\* the epoch, and the times 2^64 - 1 nanoseconds after it and before it
FarTimes ==
    {[before |-> FALSE, ns |-> U64(0)],
     [before |-> FALSE, ns |-> <<65535, 65535, 65535, 65535>>],
     [before |-> TRUE, ns |-> <<65535, 65535, 65535, 65535>>]}

CodecInit ==
    /\ event = [code |-> 0, fields |-> <<>>, metadata |-> NoMetadata]
    /\ sink = NoSink
    /\ buf = <<>>
    /\ raw = NoRaw
    /\ dec = NoDec
    /\ sink2 = NoSink
    /\ pc = "codec"
    /\ bw = Idle
    /\ ah = Idle
    /\ rq = Idle
    /\ xk = Idle
    /\ xf = Idle
    /\ sp = Idle
    /\ fs = Idle
    /\ \/ \E ty \in FieldTypes : \E v \in Values(ty) : cx = OfValue(ty, v)
       \/ \E tag \in DOMAIN DynVariants :
             \E v \in Values(DynVariants[tag]) : cx = OfValue("PT_DYN", Dyn(tag, v))
       \/ \E t \in FarTimes : cx = OfValue("PT_ABSTIME", t)
       \/ \E ty \in CodecTypes : \E b \in Slots : cx = OfSlot(ty, b)

\* the codec after ToBytes::write with outcome w
Encoded(w) ==
    [cx EXCEPT !.enc = w, !.bytes = w.bytes,
               !.phase = IF w.err = "" THEN "bytes" ELSE "failed"]

\* ToBytes::write of the value into an empty Vec<u8>
Encode ==
    /\ cx.phase = "value"
    /\ cx' = Encoded(Codec_write(cx.ty, cx.value[1]))
    /\ UNCHANGED <<event, sink, buf, raw, dec, sink2, pc, bw, ah, rq, xk, xf, sp, fs>>

\* FromBytes::from_bytes with the cursor on the whole slot
Decode ==
    /\ cx.phase = "bytes"
    /\ cx' = [cx EXCEPT !.res = Codec_from_bytes(cx.ty, cx.bytes), !.phase = "decoded"]
    /\ UNCHANGED <<event, sink, buf, raw, dec, sink2, pc, bw, ah, rq, xk, xf, sp, fs>>

\* ToBytes::write of the decoded value into an empty Vec<u8>
Reencode ==
    /\ cx.phase = "decoded"
    /\ cx.res.err = ""
    /\ cx' = [cx EXCEPT !.enc2 = Codec_write(cx.ty, cx.res.val[1]), !.phase = "reencoded"]
    /\ UNCHANGED <<event, sink, buf, raw, dec, sink2, pc, bw, ah, rq, xk, xf, sp, fs>>

CodecNext == Encode \/ Decode \/ Reencode

CodecSpec == CodecInit /\ [][CodecNext]_vars

\* the envelope and the codecs at rest
EnvIdle ==
    /\ event = [code |-> 0, fields |-> <<>>, metadata |-> NoMetadata]
    /\ sink = NoSink
    /\ buf = <<>>
    /\ raw = NoRaw
    /\ dec = NoDec
    /\ sink2 = NoSink
    /\ pc = "idle"
    /\ cx = NoCx

(***************************************************************************)
(* What the properties below talk about.                                   *)
(***************************************************************************)
\* the kind whose layout the last decode used
DecCode == IF dec.op = "parse" THEN dec.target ELSE raw.event_type

\* the last decode was a typed decode into the structure of the raw event's kind
TypedDecode == dec.op = "parse" /\ raw.event_type = dec.target

\* the field data of raw behind a complete length table of kind code
TableComplete(code) == Len(raw.payload) >= raw.nparams * LengthSize(code)

DataOf(code) == SubSeqFrom(raw.payload, raw.nparams * LengthSize(code) + 1)

EntryOf(code, i) ==
    le_value(SubSeq(raw.payload, LengthSize(code) * (i - 1) + 1, LengthSize(code) * i))

\* where the slot of field i starts in the field data, by adding up the
\* entries before it; -1 when an earlier entry already exceeds the data
RECURSIVE SlotStart(_, _)
SlotStart(code, i) ==
    IF i = 1 THEN 0
    ELSE LET s == SlotStart(code, i - 1)
         IN  IF s < 0 \/ EntryOf(code, i - 1) > Len(DataOf(code)) - s THEN -1
             ELSE s + EntryOf(code, i - 1)

\* the table has an entry for field i that declares more bytes than remain
DeclaresTooMuch(code, i) ==
    /\ i <= raw.nparams
    /\ SlotStart(code, i) >= 0
    /\ EntryOf(code, i) > Len(DataOf(code)) - SlotStart(code, i)

SlotOf(code, i) ==
    SubSeq(DataOf(code), SlotStart(code, i) + 1, SlotStart(code, i) + EntryOf(code, i))

\* how field i fares taken by itself: "" when it decodes, else its error
FieldOutcome(code, i) ==
    IF i > raw.nparams THEN ""
    ELSE IF SlotStart(code, i) < 0 \/ DeclaresTooMuch(code, i) THEN "Truncated"
    ELSE IF SlotOf(code, i) = <<>> THEN ""
    ELSE LET r == from_bytes(FieldTy(code, i), SlotOf(code, i))
         IN  IF r.err # "" THEN r.err
             ELSE IF r.rest # <<>> THEN "LeftoverData" ELSE ""

Failing(code) == {i \in 1..NumFields(code) : FieldOutcome(code, i) # ""}

FirstFailing(code) == CHOOSE i \in Failing(code) : \A j \in Failing(code) : i <= j

\* the length table and the payload region of the bytes written for event
WrittenTable == [i \in 1..NumFields(event.code) |-> TableEntry(sink.bytes, event.code, i)]

WrittenPayload ==
    SubSeqFrom(sink.bytes, HeaderSize + LengthSize(event.code) * NumFields(event.code) + 1)

\* the encodings of the fields of event one after the other
RECURSIVE FieldBytes(_)
FieldBytes(i) ==
    IF i > NumFields(event.code) THEN <<>>
    ELSE Option_write(FieldTy(event.code, i), event.fields[i]).bytes \o FieldBytes(i + 1)

FieldSizes ==
    [i \in 1..NumFields(event.code) |->
        Option_binary_size(FieldTy(event.code, i), event.fields[i])]

\* the same for an event of the writer-only specification
WideSizes ==
    [i \in 1..NumFields(event.code) |->
        Option_binary_size(FieldTy(event.code, i), WideFields[i])]

(***************************************************************************)
(* C1. Envelope round trip: writing an event and typed-decoding the bytes  *)
(* returns a payload whose every field equals the original, for every      *)
(* assignment of the fields, and writing the decoded payload again gives   *)
(* the identical bytes.                                                    *)
(***************************************************************************)
C1_RoundTrip ==
    (pc \in {"decoded", "rewritten"} /\ buf = sink.bytes /\ dec.op = "parse"
     /\ dec.target = event.code)
        => /\ dec.err = NoError
           /\ dec.fields = event.fields
           /\ (pc = "rewritten" => sink2 = sink)

C3_SizeLaw ==
    /\ sink.status = "ok" =>
        /\ PayloadToBytes_binary_size(event.code, event.fields) = Len(sink.bytes)
        /\ PayloadToBytes_binary_size(event.code, event.fields)
             = 26 + LengthSize(event.code) * NumFields(event.code) + SumSeq(FieldSizes)
    /\ sink2.status = "ok" =>
        PayloadToBytes_binary_size(DecCode, dec.fields) = Len(sink2.bytes)

C3_Witness ==
    /\ sink.status = "ok"
    /\ event.code = 11
    /\ Len(sink.bytes) = 26 + 8 + 4 + 2
    /\ sink2.status = "ok"

C5_TypeMismatch ==
    (dec.op = "parse" /\ raw.event_type # dec.target) =>
        /\ dec.err = Error("TypeMismatch", "", "", 0)
        /\ ~dec.tableRead
        /\ dec.trace = <<>>
        /\ dec.fields = <<>>
        /\ dec.variant = 0

C5_Witness ==
    /\ dec.op = "parse"
    /\ raw.event_type = 11
    /\ dec.target = 10
    /\ Len(raw.payload) > 8
    /\ dec.err.kind = "TypeMismatch"

(***************************************************************************)
(* C6. In a typed decode, when the decoder of a field succeeds on a        *)
(* non-empty slot and leaves bytes of the slot unread, the decode fails    *)
(* with NamedField(name of that field, LeftoverData); when the decode      *)
(* succeeds, the decoder of every non-empty slot read it to its last byte. *)
(***************************************************************************)
C6_LeftoverData ==
    dec.op = "parse" =>
        \A k \in 1..Len(dec.trace) :
            (dec.trace[k].slot # None /\ dec.trace[k].slot # Some(<<>>)) =>
                LET r == from_bytes(FieldTy(dec.target, k), dec.trace[k].slot[1])
                IN  /\ (r.err = "" /\ r.rest # <<>>) =>
                            dec.err = Error("NamedField", FieldName(dec.target, k),
                                            "LeftoverData", 0)
                    /\ dec.err = NoError => (r.err = "" /\ r.rest = <<>>)

C6_Witness ==
    /\ dec.op = "parse"
    /\ dec.target = 11
    /\ dec.err = Error("NamedField", "flag", "LeftoverData", 0)
    /\ Len(dec.trace[1].slot[1]) = 5

(***************************************************************************)
(* C7. A typed decode reads the fields in declaration order and stops at   *)
(* the first field whose slot cannot be extracted or whose decoding fails: *)
(* the error is NamedField with the name and the error of exactly that     *)
(* field, no later field is read and no payload is returned; when no field *)
(* fails the decode succeeds with all declared fields.                     *)
(***************************************************************************)
C7_FirstFailure ==
    (TypedDecode /\ TableComplete(dec.target)) =>
        IF Failing(dec.target) = {}
        THEN /\ dec.err = NoError
             /\ Len(dec.fields) = NumFields(dec.target)
             /\ Len(dec.trace) = NumFields(dec.target)
        ELSE /\ dec.err = Error("NamedField",
                                FieldName(dec.target, FirstFailing(dec.target)),
                                FieldOutcome(dec.target, FirstFailing(dec.target)), 0)
             /\ dec.fields = <<>>
             /\ dec.variant = 0
             /\ Len(dec.trace) = FirstFailing(dec.target)
             /\ \A j \in 1..Len(dec.trace) : dec.trace[j].field = j

C7_Witness ==
    /\ TypedDecode
    /\ TableComplete(dec.target)
    /\ dec.target = 10
    /\ Failing(dec.target) = {2, 3}
    /\ dec.err.kind = "NamedField"
    /\ dec.err.name = "name"
    /\ dec.trace[1].val = Some(U64(5))

(***************************************************************************)
(* C8. An open decode of a raw event whose event type is not a registered  *)
(* code returns UnsupportedEventType with that code, decodes no field and  *)
(* leaves the raw event and its buffer as they were; what any decode       *)
(* returns depends on the raw event alone, not on the decodes before it.   *)
(***************************************************************************)
C8_Unsupported ==
    /\ (dec.op = "load_any" /\ raw.event_type \notin EventType) =>
          /\ dec.err = Error("UnsupportedEventType", "", "", raw.event_type)
          /\ dec.variant = 0
          /\ dec.fields = <<>>
          /\ dec.trace = <<>>
          /\ ~dec.tableRead
          /\ raw = RawEvent_from(buf)
          /\ buf \in Damaged(sink.bytes, event.code)
    /\ dec.op = "parse" => dec = Typed(dec.target, parse(raw, dec.target))
    /\ dec.op = "load_any" => dec = Open(load_any(raw))

C8_Witness ==
    /\ dec.op = "load_any"
    /\ raw.event_type = UnknownCode
    /\ dec.err = Error("UnsupportedEventType", "", "", UnknownCode)
    /\ Len(raw.payload) > 8

C10_TruncatedForThatField ==
    (TypedDecode /\ TableComplete(dec.target)) =>
        \A i \in 1..NumFields(dec.target) :
            DeclaresTooMuch(dec.target, i) =>
                dec.err = Error("NamedField", FieldName(dec.target, i), "Truncated", 0)

(***************************************************************************)
(* C10 amended. A typed decode of an event whose length table is itself    *)
(* cut short fails with Truncated and reads no field.  When the table      *)
(* declares for a declared field more bytes than remain, the decode fails; *)
(* it fails with Truncated reported for that field when every field before *)
(* it decodes, and otherwise with the error of the first field that does   *)
(* not.  Every slot a decode hands to a field lies within the field data   *)
(* of the event.                                                           *)
(***************************************************************************)
C10_Truncation ==
    /\ (TypedDecode /\ ~TableComplete(dec.target)) =>
          /\ dec.err = Error("Truncated", "", "", 0)
          /\ dec.trace = <<>>
    /\ (TypedDecode /\ TableComplete(dec.target)) =>
          /\ \A i \in 1..NumFields(dec.target) :
                DeclaresTooMuch(dec.target, i) =>
                    /\ dec.err # NoError
                    /\ dec.fields = <<>>
                    /\ (\A j \in 1..(i - 1) : FieldOutcome(dec.target, j) = "") =>
                          dec.err = Error("NamedField", FieldName(dec.target, i),
                                          "Truncated", 0)
                    /\ (\E j \in 1..(i - 1) : FieldOutcome(dec.target, j) # "") =>
                          dec.err = Error("NamedField",
                                          FieldName(dec.target, FirstFailing(dec.target)),
                                          FieldOutcome(dec.target, FirstFailing(dec.target)), 0)
          /\ \A k \in 1..Len(dec.trace) :
                dec.trace[k].slot # None =>
                    /\ SlotStart(dec.target, k) >= 0
                    /\ SlotStart(dec.target, k) + EntryOf(dec.target, k)
                          <= Len(DataOf(dec.target))
                    /\ dec.trace[k].slot[1] = SlotOf(dec.target, k)

C10_Witness ==
    /\ TypedDecode
    /\ TableComplete(dec.target)
    /\ dec.target = 11
    /\ DeclaresTooMuch(dec.target, 2)
    /\ FieldOutcome(dec.target, 1) = ""
    /\ dec.err = Error("NamedField", "event_data", "Truncated", 0)

(***************************************************************************)
(* C11. Writing an event fails fatally exactly when the binary_size of     *)
(* some field does not fit an entry of the length table of its kind (more  *)
(* than 65535 for a two-byte table); the failure comes before any byte     *)
(* reaches the sink, and the table of every other write holds the sizes    *)
(* themselves, never a size reduced modulo 2^16.                           *)
(***************************************************************************)
C11_SizeOverflow ==
    pc = "written" =>
        /\ sink.status = "panic" <=>
              /\ LengthSize(event.code) = 2
              /\ \E i \in 1..NumFields(event.code) : WideSizes[i] > 65535
        /\ sink.status = "panic" => sink.bytes = <<>>
        /\ sink.status # "panic" =>
              /\ Len(sink.bytes) >= HeaderSize + LengthSize(event.code) * NumFields(event.code)
              /\ WrittenTable = WideSizes

C11_Witness ==
    /\ pc = "written"
    /\ event.code = 10
    /\ WideSizes = <<8, 2, 65536>>
    /\ sink = [status |-> "panic", bytes |-> <<>>]

(***************************************************************************)
(* C12. The writer, the typed decode and the open decode use one width for *)
(* the length table of a kind: 4 bytes when the kind is a large-payload    *)
(* kind and 2 bytes otherwise.  So either reader splits the bytes written  *)
(* for an event into the slots the writer filled: slot k holds exactly the *)
(* bytes written for field k.                                              *)
(***************************************************************************)
C12_OneWidth ==
    /\ sink.status = "ok" =>
          Len(sink.bytes) - HeaderSize - Len(FieldBytes(1))
              = (IF LARGE(event.code) THEN 4 ELSE 2) * NumFields(event.code)
    /\ (buf = sink.bytes /\ sink.status = "ok" /\ dec.op \in {"parse", "load_any"}
        /\ DecCode = event.code) =>
          /\ dec.tableRead
          /\ Len(dec.trace) >= 1
          /\ \A k \in 1..Len(dec.trace) :
                dec.trace[k].slot
                    = Some(Option_write(FieldTy(event.code, k), event.fields[k]).bytes)

C12_Witness ==
    /\ buf = sink.bytes
    /\ dec.op = "load_any"
    /\ event.code = 11
    /\ Len(sink.bytes) = HeaderSize + 8 + 4 + 1
    /\ Len(dec.trace) = 2
    /\ dec.trace[1].slot = Some(<<1, 0, 0, 0>>)
    /\ dec.trace[2].slot = Some(<<65>>)

(***************************************************************************)
(* What the properties of the codecs talk about.                           *)
(***************************************************************************)
\* the codec has decoded
Decoded == cx.phase \in {"decoded", "reencoded"}

\* the codec works on a value of type ty and has encoded it
EncodedAs(ty) == cx.ty = ty /\ cx.origin = "value" /\ cx.phase # "value"

\* the codec works on a value of type ty, has encoded it and decoded the bytes
RoundAs(ty) == cx.ty = ty /\ cx.origin = "value" /\ Decoded

\* the codec works on a slot as type ty and has decoded it
SlotAs(ty) == cx.ty = ty /\ cx.origin = "slot" /\ Decoded

(***************************************************************************)
(* C13. Dynamic tag law: a value of a variant is written as the one-byte   *)
(* tag of the variant followed by the encoding of its payload, and         *)
(* decoding these bytes gives the same variant with an equal payload.      *)
(* Decoding a slot whose first byte is not a declared tag fails with       *)
(* InvalidDynDiscriminant, whatever bytes follow.                          *)
(***************************************************************************)
C13_DynTagLaw ==
    /\ EncodedAs("PT_DYN") =>
          /\ cx.enc.err = ""
          /\ cx.bytes = <<cx.value[1].tag>>
                           \o write(DynVariants[cx.value[1].tag], cx.value[1].val).bytes
    /\ RoundAs("PT_DYN") => cx.res = DecOk(cx.value[1], <<>>)
    /\ (SlotAs("PT_DYN") /\ cx.bytes # <<>> /\ Head(cx.bytes) \notin DOMAIN DynVariants) =>
          /\ cx.res.err = "InvalidDynDiscriminant"
          /\ cx.res.val = <<>>

C13_Witness ==
    /\ RoundAs("PT_DYN")
    /\ cx.value[1].tag = 1
    /\ cx.value[1].val = TRUE
    /\ cx.bytes = <<1, 1, 0, 0, 0>>
    /\ cx.res = DecOk(Dyn(1, TRUE), <<>>)

\* the size the spec gives a composite value: one byte and the payload for
\* a socket address or a dynamic parameter, every string and its terminator
\* for the arrays
PayloadSize(a) ==
    CASE a.fam = "Unix" -> Len(a.data) + 1
      [] a.fam = "V4" -> 4 + 2
      [] a.fam = "V6" -> 16 + 2
      [] OTHER -> Len(a.data)

LawSize(ty, v) ==
    CASE ty = "PT_SOCKADDR" -> 1 + PayloadSize(v)
      [] ty = "PT_DYN" -> 1 + Len(write(DynVariants[v.tag], v.val).bytes)
      [] ty = "PT_CHARBUFARRAY" -> SumSeq([i \in 1..Len(v) |-> Len(v[i]) + 1])
      [] ty = "PT_CHARBUF_PAIR_ARRAY" ->
            SumSeq([i \in 1..Len(v) |-> Len(v[i][1]) + 1 + Len(v[i][2]) + 1])

Composite == {"PT_SOCKADDR", "PT_DYN", "PT_CHARBUFARRAY", "PT_CHARBUF_PAIR_ARRAY"}

(***************************************************************************)
(* C14. Size law for composite fields: for a socket address of any of the  *)
(* four families, a dynamic parameter, a string array and a string-pair    *)
(* array, binary_size is the number of bytes write emits, which is one     *)
(* byte and the payload for the first two and the sum of length + 1 over   *)
(* the strings for the arrays.  It holds for the values the model draws    *)
(* and for the values decoded from slots.                                  *)
(***************************************************************************)
C14_CompositeSize ==
    cx.ty \in Composite =>
        /\ (cx.origin = "value" /\ cx.phase # "value" /\ cx.enc.err = "") =>
              /\ Codec_binary_size(cx.ty, cx.value[1]) = Len(cx.enc.bytes)
              /\ Len(cx.enc.bytes) = LawSize(cx.ty, cx.value[1])
        /\ (cx.phase = "reencoded" /\ cx.enc2.err = "") =>
              /\ Codec_binary_size(cx.ty, cx.res.val[1]) = Len(cx.enc2.bytes)
              /\ Len(cx.enc2.bytes) = LawSize(cx.ty, cx.res.val[1])

C14_Witness ==
    /\ cx.ty = "PT_SOCKADDR"
    /\ cx.origin = "value"
    /\ cx.phase = "bytes"
    /\ cx.value[1].fam = "V6"
    /\ Len(cx.enc.bytes) = 19
    /\ SockAddr_binary_size(cx.value[1]) = 19

(***************************************************************************)
(* C15. Socket address, Unix family: Unix(p) is written as the local       *)
(* family byte, the bytes of p and one terminating zero byte; decoding     *)
(* these bytes gives Unix(p) again, the path without the terminator; and   *)
(* writing the decoded value gives the same bytes.                         *)
(***************************************************************************)
C15_UnixRoundTrip ==
    (cx.ty = "PT_SOCKADDR" /\ cx.origin = "value" /\ cx.value[1].fam = "Unix") =>
        /\ cx.phase # "value" =>
              /\ cx.enc.err = ""
              /\ cx.bytes = <<PPM_AF_LOCAL>> \o cx.value[1].data \o <<0>>
        /\ Decoded =>
              /\ cx.res.err = ""
              /\ cx.res.val = <<SockAddr_Unix(cx.value[1].data)>>
        /\ cx.phase = "reencoded" =>
              /\ cx.enc2.err = ""
              /\ cx.enc2.bytes = cx.bytes

\* the family codes with a decoder of their own
KnownFamilies == {PPM_AF_LOCAL, PPM_AF_INET, PPM_AF_INET6}

(***************************************************************************)
(* C16. Socket address, other family: from a slot whose first byte is not  *)
(* the local, IPv4 or IPv6 family code the decoder returns Other(family,   *)
(* raw) with family that byte and raw all the bytes after it, possibly     *)
(* none; writing that value gives the bytes of the slot again.             *)
(***************************************************************************)
C16_OtherFamily ==
    (SlotAs("PT_SOCKADDR") /\ cx.bytes # <<>> /\ Head(cx.bytes) \notin KnownFamilies) =>
        /\ cx.res.err = ""
        /\ cx.res.val = <<SockAddr_Other(Head(cx.bytes), Tail(cx.bytes))>>
        /\ cx.phase = "reencoded" =>
              /\ cx.enc2.err = ""
              /\ cx.enc2.bytes = cx.bytes

C16_Witness ==
    /\ SlotAs("PT_SOCKADDR")
    /\ cx.phase = "reencoded"
    /\ cx.bytes = <<65, 0, 1>>
    /\ cx.res.val = <<SockAddr_Other(65, <<0, 1>>)>>
    /\ cx.enc2.bytes = <<65, 0, 1>>

\* the strings of a, each followed by one zero byte, from the last one back
RECURSIVE Terminated(_)
Terminated(a) ==
    IF a = <<>> THEN <<>>
    ELSE Terminated(SubSeq(a, 1, Len(a) - 1)) \o a[Len(a)] \o <<0>>

\* the number of zero bytes of a slot
Zeros(b) == Cardinality({i \in 1..Len(b) : b[i] = 0})

(***************************************************************************)
(* C17. String array: the strings are written in order, each followed by   *)
(* one zero byte, with no count before them.  Decoding reads terminated    *)
(* strings until the slot is used up: the empty slot gives the empty       *)
(* array, a slot of k zero bytes gives k empty strings, and every array    *)
(* written and decoded comes back equal.                                   *)
(***************************************************************************)
C17_StringArray ==
    /\ EncodedAs("PT_CHARBUFARRAY") =>
          /\ cx.enc.err = ""
          /\ cx.bytes = Terminated(cx.value[1])
    /\ RoundAs("PT_CHARBUFARRAY") => cx.res = DecOk(cx.value[1], <<>>)
    /\ (SlotAs("PT_CHARBUFARRAY") /\ cx.bytes = <<>>) => cx.res = DecOk(<<>>, <<>>)
    /\ (SlotAs("PT_CHARBUFARRAY") /\ Zeros(cx.bytes) = Len(cx.bytes)) =>
          cx.res = DecOk([i \in 1..Len(cx.bytes) |-> <<>>], <<>>)
    /\ (SlotAs("PT_CHARBUFARRAY") /\ cx.res.err = "") =>
          /\ Len(cx.res.val[1]) = Zeros(cx.bytes)
          /\ cx.res.rest = <<>>
          /\ Terminated(cx.res.val[1]) = cx.bytes

C17_Witness ==
    /\ SlotAs("PT_CHARBUFARRAY")
    /\ cx.bytes = <<0, 0, 0>>
    /\ cx.res = DecOk(<< <<>>, <<>>, <<>> >>, <<>>)

\* a slot that is a sequence of zero-terminated strings
Flat(b) == b = <<>> \/ b[Len(b)] = 0

\* the position of the j-th zero byte of a slot, and the j-th string
ZeroAt(b, j) ==
    CHOOSE p \in 1..Len(b) : b[p] = 0 /\ Cardinality({q \in 1..p : b[q] = 0}) = j

StringAt(b, j) ==
    SubSeq(b, IF j = 1 THEN 1 ELSE ZeroAt(b, j - 1) + 1, ZeroAt(b, j) - 1)

(***************************************************************************)
(* C18. Pairing law: a slot holding an odd number of zero-terminated       *)
(* strings fails to decode as a string-pair array, with the odd item count *)
(* error (OddPairItemCount in the code); a slot holding 2k strings gives   *)
(* k pairs, pair i of the (2i-1)-th and the 2i-th string of the slot, and  *)
(* writing the pairs gives the bytes of the slot.                          *)
(***************************************************************************)
C18_PairingLaw ==
    (SlotAs("PT_CHARBUF_PAIR_ARRAY") /\ Flat(cx.bytes)) =>
        /\ Zeros(cx.bytes) % 2 = 1 =>
              /\ cx.res.err = "OddPairItemCount"
              /\ cx.res.val = <<>>
        /\ Zeros(cx.bytes) % 2 = 0 =>
              /\ cx.res.err = ""
              /\ cx.res.val[1] = [i \in 1..(Zeros(cx.bytes) \div 2) |->
                                    <<StringAt(cx.bytes, 2 * i - 1), StringAt(cx.bytes, 2 * i)>>]
              /\ cx.phase = "reencoded" =>
                    /\ cx.enc2.err = ""
                    /\ cx.enc2.bytes = cx.bytes

C18_Witness ==
    /\ SlotAs("PT_CHARBUF_PAIR_ARRAY")
    /\ cx.phase = "reencoded"
    /\ cx.bytes = <<65, 0, 0, 0, 0>>
    /\ cx.res.val = << << << <<65>>, <<>> >>, << <<>>, <<>> >> >> >>
    /\ cx.enc2.bytes = cx.bytes

\* a non-empty slot whose last byte is not a zero byte
Unterminated(b) == b # <<>> /\ b[Len(b)] # 0

\* C19 as stated: a string, a string array and a string-pair array all fail
\* with Truncated on a non-empty slot whose last byte is not zero
C19_Unterminated ==
    (/\ \/ SlotAs("PT_CHARBUF")
        \/ SlotAs("PT_CHARBUFARRAY")
        \/ SlotAs("PT_CHARBUF_PAIR_ARRAY")
     /\ Unterminated(cx.bytes)) =>
        /\ cx.res.err = "Truncated"
        /\ cx.res.val = <<>>

(***************************************************************************)
(* C19. Decoding a string array or a string-pair array from a non-empty    *)
(* slot whose last byte is not zero fails with Truncated, for the pair     *)
(* array whatever the number of strings before the unterminated one, and   *)
(* returns no part of the array.  Decoding a string fails with Truncated   *)
(* exactly when the slot holds no zero byte; otherwise it returns the      *)
(* bytes before the first zero byte and leaves the bytes after it.         *)
(***************************************************************************)
C19_Truncated ==
    /\ (/\ SlotAs("PT_CHARBUFARRAY") \/ SlotAs("PT_CHARBUF_PAIR_ARRAY")
        /\ Unterminated(cx.bytes)) =>
          /\ cx.res.err = "Truncated"
          /\ cx.res.val = <<>>
    /\ (SlotAs("PT_CHARBUF") /\ Zeros(cx.bytes) = 0) =>
          /\ cx.res.err = "Truncated"
          /\ cx.res.val = <<>>
    /\ (SlotAs("PT_CHARBUF") /\ Zeros(cx.bytes) > 0) =>
          /\ cx.res.err = ""
          /\ cx.res.val = <<StringAt(cx.bytes, 1)>>
          /\ cx.res.rest = SubSeqFrom(cx.bytes, ZeroAt(cx.bytes, 1) + 1)

C19_Witness ==
    /\ SlotAs("PT_CHARBUF_PAIR_ARRAY")
    /\ cx.bytes = <<65, 0, 65>>
    /\ cx.res.err = "Truncated"
    /\ cx.res.val = <<>>

(***************************************************************************)
(* C20. Boolean codec: a boolean is written as the four bytes of the       *)
(* 32-bit unsigned integer 1 (true) or 0 (false), and binary_size is 4.    *)
(* Decoding fails with Truncated when the slot has fewer than four bytes;  *)
(* otherwise it consumes exactly four bytes and returns true when the      *)
(* 32-bit value is not zero, false when it is.  A boolean written and      *)
(* decoded comes back equal.                                               *)
(***************************************************************************)
C20_BoolCodec ==
    /\ EncodedAs("PT_BOOL") =>
          /\ cx.enc.err = ""
          /\ cx.bytes = IF cx.value[1] THEN <<1, 0, 0, 0>> ELSE <<0, 0, 0, 0>>
          /\ bool_binary_size(cx.value[1]) = 4
    /\ RoundAs("PT_BOOL") => cx.res = DecOk(cx.value[1], <<>>)
    /\ (SlotAs("PT_BOOL") /\ Len(cx.bytes) < 4) =>
          /\ cx.res.err = "Truncated"
          /\ cx.res.val = <<>>
    /\ (SlotAs("PT_BOOL") /\ Len(cx.bytes) >= 4) =>
          /\ cx.res.err = ""
          /\ cx.res.val = <<\E i \in 1..4 : cx.bytes[i] # 0>>
          /\ cx.res.rest = SubSeqFrom(cx.bytes, 5)

C20_Witness ==
    /\ SlotAs("PT_BOOL")
    /\ cx.bytes = <<0, 0, 2, 0, 65>>
    /\ cx.res = DecOk(TRUE, <<65>>)

(***************************************************************************)
(* C21. Absolute time codec: writing a time that precedes the epoch        *)
(* returns an error, not a panic, and no byte reaches the sink; writing a  *)
(* time at or after the epoch emits the eight bytes of its distance from   *)
(* the epoch in nanoseconds, binary_size is 8, and decoding these bytes    *)
(* gives the same time.                                                    *)
(***************************************************************************)
C21_AbsTime ==
    /\ (EncodedAs("PT_ABSTIME") /\ cx.value[1].before) =>
          /\ cx.enc.err \notin {"", "panic"}
          /\ cx.enc.bytes = <<>>
          /\ cx.phase = "failed"
    /\ (EncodedAs("PT_ABSTIME") /\ ~cx.value[1].before) =>
          /\ cx.enc.err = ""
          /\ Len(cx.enc.bytes) = 8
          /\ [i \in 1..4 |-> cx.enc.bytes[2 * i - 1] + 256 * cx.enc.bytes[2 * i]]
                = cx.value[1].ns
          /\ SystemTime_binary_size(cx.value[1]) = 8
    /\ RoundAs("PT_ABSTIME") => cx.res = DecOk(cx.value[1], <<>>)

C21_Witness ==
    /\ EncodedAs("PT_ABSTIME")
    /\ cx.value[1] = [before |-> TRUE, ns |-> U64(5)]
    /\ cx.phase = "failed"
    /\ cx.enc = [err |-> "io", bytes |-> <<>>]

\* the types whose decoder is to take the rest of its slot; for a socket
\* address this is so for the Unix family and for the other families
RestTakers == {"PT_CHARBUFARRAY", "PT_CHARBUF_PAIR_ARRAY", "PT_SOCKADDR"}

TakesRest(ty, slot) ==
    /\ ty \in RestTakers
    /\ ty = "PT_SOCKADDR" => Head(slot) \notin {PPM_AF_INET, PPM_AF_INET6}

(***************************************************************************)
(* C30. A field decoder that is to take the rest of its slot (string       *)
(* array, string-pair array, socket address of the Unix family or of an    *)
(* other family) leaves the cursor empty when it succeeds, so a typed      *)
(* decode never reports LeftoverData for a slot such a decoder accepted.   *)
(***************************************************************************)
C30_RestOfSlot ==
    dec.op = "parse" =>
        \A k \in 1..Len(dec.trace) :
            (/\ dec.trace[k].slot # None
             /\ dec.trace[k].slot # Some(<<>>)
             /\ TakesRest(FieldTy(dec.target, k), dec.trace[k].slot[1])
             /\ from_bytes(FieldTy(dec.target, k), dec.trace[k].slot[1]).err = "") =>
                /\ from_bytes(FieldTy(dec.target, k), dec.trace[k].slot[1]).rest = <<>>
                /\ dec.err # Error("NamedField", FieldName(dec.target, k), "LeftoverData", 0)

(***************************************************************************)
(* Owned values and the views borrowed from them.  An owned socket address *)
(* is a variant of OwnedSockAddr, an owned relative path holds a           *)
(* UnixPathBuf, and an owned string of a pair array is a CString, which    *)
(* keeps its bytes with the terminating zero byte.                         *)
(***************************************************************************)
OwnedSockAddr_Unix(p) == [own |-> "Unix", path |-> p]

OwnedSockAddr_V4(e) == [own |-> "V4", endpoint |-> e]

OwnedSockAddr_V6(e) == [own |-> "V6", endpoint |-> e]

OwnedSockAddr_Other(af, data) == [own |-> "Other", af |-> af, raw |-> data]

OwnedRelativePath(p) == [pathbuf |-> p]

RelativePath(p) == [path |-> p]

\* CString::new of the bytes of a string, and CString::as_c_str
CString(s) == s \o <<0>>

as_c_str(c) == SubSeq(c, 1, Len(c) - 1)

\* impl ToBytes for RelativePath
RelativePath_binary_size(r) == UnixPath_binary_size(r.path)

RelativePath_write(r) == UnixPath_write(r.path)

\* impl Borrow for OwnedSockAddr
OwnedSockAddr_borrow(o) ==
    CASE o.own = "Unix" -> SockAddr_Unix(o.path)
      [] o.own = "V4" -> SockAddr_V4(o.endpoint)
      [] o.own = "V6" -> SockAddr_V6(o.endpoint)
      [] o.own = "Other" -> SockAddr_Other(o.af, o.raw)

\* impl Borrow for OwnedRelativePath
OwnedRelativePath_borrow(o) == RelativePath(o.pathbuf)

\* a faulty borrow that hands out the value of a pair before its key
CStringPairs_borrow_swapped(o) ==
    [i \in 1..Len(o) |-> <<as_c_str(o[i][2]), as_c_str(o[i][1])>>]

\* impl Borrow for Vec<(CString, CString)>
CStringPairs_borrow(o) ==
    [i \in 1..Len(o) |-> <<as_c_str(o[i][1]), as_c_str(o[i][2])>>]

\* the owned copy of a borrowed value
to_owned(ty, v) ==
    CASE ty = "PT_SOCKADDR" ->
            (CASE v.fam = "Unix" -> OwnedSockAddr_Unix(v.data)
               [] v.fam = "V4" -> OwnedSockAddr_V4(EndpointOf(v))
               [] v.fam = "V6" -> OwnedSockAddr_V6(EndpointOf(v))
               [] OTHER -> OwnedSockAddr_Other(v.af, v.data))
      [] ty = "PT_FSRELPATH" -> OwnedRelativePath(v.path)
      [] ty = "PT_CHARBUF_PAIR_ARRAY" ->
            [i \in 1..Len(v) |-> <<CString(v[i][1]), CString(v[i][2])>>]

borrow(ty, o) ==
    CASE ty = "PT_SOCKADDR" -> OwnedSockAddr_borrow(o)
      [] ty = "PT_FSRELPATH" -> OwnedRelativePath_borrow(o)
      [] ty = "PT_CHARBUF_PAIR_ARRAY" -> CStringPairs_borrow(o)

Borrowed_write(ty, v) ==
    CASE ty = "PT_SOCKADDR" -> SockAddr_write(v)
      [] ty = "PT_FSRELPATH" -> RelativePath_write(v)
      [] ty = "PT_CHARBUF_PAIR_ARRAY" -> CStrPairArray_write(v)

\* the borrowed values owned copies are made of
Paths == SeqsUpTo({47, 65}, MaxStr)

Names == SeqsUpTo({65, 66}, 1)

OfBorrowed(ty, v) ==
    [phase |-> "owned", ty |-> ty, from |-> <<v>>, o |-> to_owned(ty, v),
     b |-> <<>>, bytes |-> <<>>]

BorrowInit ==
    /\ EnvIdle
    /\ ah = Idle
    /\ rq = Idle
    /\ xk = Idle
    /\ xf = Idle
    /\ sp = Idle
    /\ fs = Idle
    /\ \/ \E p \in Paths : bw = OfBorrowed("PT_SOCKADDR", SockAddr_Unix(p))
       \/ \E v \in SockAddrValues : bw = OfBorrowed("PT_SOCKADDR", v)
       \/ \E af \in {0, 3} : \E r \in SeqsUpTo({0, 65}, MaxStr) :
             bw = OfBorrowed("PT_SOCKADDR", SockAddr_Other(af, r))
       \/ \E p \in Paths : bw = OfBorrowed("PT_FSRELPATH", RelativePath(p))
       \/ \E v \in SeqsUpTo(Names \X Names, MaxItems) :
             bw = OfBorrowed("PT_CHARBUF_PAIR_ARRAY", v)

\* Borrow::borrow(&self)
Borrow ==
    /\ bw.phase = "owned"
    /\ bw' = [bw EXCEPT !.b = <<borrow(bw.ty, bw.o)>>, !.phase = "borrowed"]
    /\ UNCHANGED <<envVars, ah, rq, xk, xf, sp, fs>>

\* ToBytes::write of the view into an empty Vec<u8>
WriteBorrowed ==
    /\ bw.phase = "borrowed"
    /\ bw' = [bw EXCEPT !.bytes = Borrowed_write(bw.ty, bw.b[1]), !.phase = "written"]
    /\ UNCHANGED <<envVars, ah, rq, xk, xf, sp, fs>>

BorrowNext == Borrow \/ WriteBorrowed

BorrowSpec == BorrowInit /\ [][BorrowNext]_vars

(***************************************************************************)
(* C22. Owned to borrowed conversion: for an owned socket address, an      *)
(* owned relative path and an owned string-pair array, borrow succeeds,    *)
(* leaves the owned value as it was, and gives a view of the same variant  *)
(* with the same bytes and elements in the same order: the view equals the *)
(* borrowed value the owned one was copied from, and so do its bytes when  *)
(* written.                                                                *)
(***************************************************************************)
C22_Borrow ==
    /\ bw.phase # "idle" => bw.o = to_owned(bw.ty, bw.from[1])
    /\ bw.phase \in {"borrowed", "written"} =>
          /\ Len(bw.b) = 1
          /\ bw.b[1] = bw.from[1]
    /\ bw.phase = "written" => bw.bytes = Borrowed_write(bw.ty, bw.from[1])

C22_Witness ==
    /\ bw.phase = "written"
    /\ bw.ty = "PT_CHARBUF_PAIR_ARRAY"
    /\ bw.o = << <<(<<65, 0>>), (<<66, 0>>)>>, <<(<<0>>), (<<65, 0>>)>> >>
    /\ bw.b[1] = << <<(<<65>>), (<<66>>)>>, <<(<<>>), (<<65>>)>> >>
    /\ bw.bytes = <<65, 0, 66, 0, 0, 65, 0>>

(***************************************************************************)
(* A plugin emitting one async event through AsyncHandler.  The handler    *)
(* the host registered answers with a return code and with a message in    *)
(* the error buffer, which may or may not be a valid string.               *)
(***************************************************************************)
ss_plugin_rc ==
    {"SS_PLUGIN_SUCCESS", "SS_PLUGIN_FAILURE", "SS_PLUGIN_TIMEOUT", "SS_PLUGIN_EOF",
     "SS_PLUGIN_NOT_SUPPORTED"}

\* AsResult::as_result: "" for Ok(()), otherwise the code of the error
as_result(rc) == IF rc = "SS_PLUGIN_SUCCESS" THEN "" ELSE rc

\* what a call of emit comes to: what it returns, why it returns an error,
\* and the bytes the handler was called with, if it was
EmitOutcome(ret, why, evt) == [ret |-> ret, why |-> why, called |-> evt # <<>>, evt |-> evt]

\* a faulty emit that does not look at the code the handler returns
emit_call_unchecked(w, rc, msgok) ==
    IF w.status = "panic" THEN EmitOutcome("panic", "", <<>>)
    ELSE IF w.status = "err" THEN EmitOutcome("Err", "write", <<>>)
    ELSE EmitOutcome("Ok", "", <<w.bytes>>)

\* AsyncHandler::emit after event.write(&mut buf) with outcome w
emit_call(w, rc, msgok) ==
    IF w.status = "panic" THEN EmitOutcome("panic", "", <<>>)
    ELSE IF w.status = "err" THEN EmitOutcome("Err", "write", <<>>)
    ELSE IF as_result(rc) = "" THEN EmitOutcome("Ok", "", <<w.bytes>>)
    ELSE IF ~msgok THEN EmitOutcome("Err", "try_str_from_ptr", <<w.bytes>>)
    ELSE EmitOutcome("Err", as_result(rc), <<w.bytes>>)

\* AsyncHandler::emit
emit(fields, metadata, rc, msgok) ==
    emit_call(PayloadToBytes_write(PPME_ASYNCEVENT_E, fields, metadata), rc, msgok)

NoOutcome == EmitOutcome("", "", <<>>)

EmitInit ==
    /\ EnvIdle
    /\ bw = Idle
    /\ rq = Idle
    /\ xk = Idle
    /\ xf = Idle
    /\ sp = Idle
    /\ fs = Idle
    /\ \E fields \in Assignments(PPME_ASYNCEVENT_E, NumFields(PPME_ASYNCEVENT_E)) :
         \E metadata \in MetadataValues \cup {NoMetadata} :
           ah = [phase |-> "ready", fields |-> fields, metadata |-> metadata,
                 rc |-> "", msgok |-> TRUE, out |-> NoOutcome]

\* one call of emit; rc and msgok are the answer of the host's handler
Emit ==
    /\ ah.phase = "ready"
    /\ \E rc \in ss_plugin_rc : \E msgok \in BOOLEAN :
         ah' = [ah EXCEPT !.phase = "emitted", !.rc = rc, !.msgok = msgok,
                          !.out = emit(ah.fields, ah.metadata, rc, msgok)]
    /\ UNCHANGED <<envVars, bw, rq, xk, xf, sp, fs>>

EmitSpec == EmitInit /\ [][Emit]_vars

(***************************************************************************)
(* C23. AsyncHandler::emit returns an error exactly when the handler of    *)
(* the host returns an error: when emit returns Err, the handler was       *)
(* called with the bytes of that event and answered with a code other than *)
(* success, and when the handler answers success emit returns Ok.          *)
(***************************************************************************)
C23_EmitIff ==
    ah.phase = "emitted" =>
        /\ ah.out.ret \in {"Ok", "Err"}
        /\ ah.out.ret = "Err" <=> (ah.out.called /\ ah.rc # "SS_PLUGIN_SUCCESS")
        /\ (ah.out.called /\ ah.rc = "SS_PLUGIN_SUCCESS") => ah.out.ret = "Ok"
        /\ ah.out.called =>
              ah.out.evt = <<PayloadToBytes_write(PPME_ASYNCEVENT_E, ah.fields,
                                                  ah.metadata).bytes>>

C23_Witness ==
    /\ ah.phase = "emitted"
    /\ ah.rc = "SS_PLUGIN_FAILURE"
    /\ ah.out.called
    /\ ah.out.ret = "Err"
    /\ ah.out.why = "SS_PLUGIN_FAILURE"

(***************************************************************************)
(* The async plugin of the runner: the names the plugin declared, the      *)
(* queue the handler fills from the threads of the plugin, and the event   *)
(* the main thread took last.                                              *)
(***************************************************************************)
MaxCalls == 3

Threads == {1, 2}

\* CStr::to_str: whether the bytes are well-formed UTF-8
RECURSIVE Utf8Valid(_)
Utf8Valid(s) ==
    LET Cont(i, lo, hi) == Len(s) >= i /\ s[i] >= lo /\ s[i] <= hi
    IN  IF s = <<>> THEN TRUE
        ELSE IF s[1] < 128 THEN Utf8Valid(SubSeqFrom(s, 2))
        ELSE IF s[1] >= 194 /\ s[1] <= 223
        THEN Cont(2, 128, 191) /\ Utf8Valid(SubSeqFrom(s, 3))
        ELSE IF s[1] >= 224 /\ s[1] <= 239
        THEN /\ Cont(2, IF s[1] = 224 THEN 160 ELSE 128, IF s[1] = 237 THEN 159 ELSE 191)
             /\ Cont(3, 128, 191)
             /\ Utf8Valid(SubSeqFrom(s, 4))
        ELSE IF s[1] >= 240 /\ s[1] <= 244
        THEN /\ Cont(2, IF s[1] = 240 THEN 144 ELSE 128, IF s[1] = 244 THEN 143 ELSE 191)
             /\ Cont(3, 128, 191)
             /\ Cont(4, 128, 191)
             /\ Utf8Valid(SubSeqFrom(s, 5))
        ELSE FALSE

\* AsyncPlugin::new: the list get_async_events returns, or no list when the
\* plugin has no such function, returns null or returns no JSON list of names
AsyncPlugin_new(answer) ==
    IF answer.kind = "list" THEN answer.names ELSE <<>>

\* what a call of the handler comes to: the code returned and the bytes to
\* push, if any
Handled(rc, push) == [rc |-> rc, push |-> push]

\* a faulty handler that takes every async event with a name
async_handler_anyname(async_events, b) ==
    LET evt == Take(b, le_value(SubSeq(b, 17, 20)))
        raw_event == RawEvent_from(evt)
    IN  IF raw_event.err # "" THEN Handled("SS_PLUGIN_FAILURE", <<>>)
        ELSE LET async_event == parse(raw_event, PPME_ASYNCEVENT_E)
             IN  IF async_event.err # NoError THEN Handled("SS_PLUGIN_FAILURE", <<>>)
                 ELSE IF async_event.fields[2] = None
                 THEN Handled("SS_PLUGIN_FAILURE", <<>>)
                 ELSE Handled("SS_PLUGIN_SUCCESS", <<evt>>)

\* async_handler up to the push: the event is the first len bytes behind the
\* pointer, with len read from the header
async_handler(async_events, b) ==
    LET evt == Take(b, le_value(SubSeq(b, 17, 20)))
        raw_event == RawEvent_from(evt)
    IN  IF raw_event.err # "" THEN Handled("SS_PLUGIN_FAILURE", <<>>)
        ELSE LET async_event == parse(raw_event, PPME_ASYNCEVENT_E)
             IN  IF async_event.err # NoError THEN Handled("SS_PLUGIN_FAILURE", <<>>)
                 ELSE IF async_event.fields[2] = None
                 THEN Handled("SS_PLUGIN_FAILURE", <<>>)
                 ELSE IF ~Utf8Valid(async_event.fields[2][1])
                 THEN Handled("SS_PLUGIN_FAILURE", <<>>)
                 ELSE IF ~\E k \in 1..Len(async_events) :
                              async_events[k] = async_event.fields[2][1]
                 THEN Handled("SS_PLUGIN_FAILURE", <<>>)
                 ELSE Handled("SS_PLUGIN_SUCCESS", <<evt>>)

\* a faulty next_event that looks at the front of the queue and leaves it
next_event_peek(q, last) ==
    IF q = <<>>
    THEN [queue |-> q, last_event |-> None, rc |-> "SS_PLUGIN_TIMEOUT", ptr |-> 0]
    ELSE [queue |-> q, last_event |-> Some(Head(q)), rc |-> "SS_PLUGIN_SUCCESS",
          ptr |-> Head(q).id]

\* AsyncPlugin::next_event: pop_front into last_event, then the pointer to
\* the bytes of last_event or TIMEOUT
next_event(q, last) ==
    IF q = <<>>
    THEN [queue |-> q, last_event |-> None, rc |-> "SS_PLUGIN_TIMEOUT", ptr |-> 0]
    ELSE [queue |-> Tail(q), last_event |-> Some(Head(q)), rc |-> "SS_PLUGIN_SUCCESS",
          ptr |-> Head(q).id]

\* the names an event may carry: "A", "B", the two bytes of U+00E9, and a
\* byte that no UTF-8 text holds
EventNames == {<<65>>, <<66>>, <<195, 169>>, <<255>>}

AsyncBytes(name, data) ==
    PayloadToBytes_write(PPME_ASYNCEVENT_E, <<None, name, data>>, NoMetadata).bytes

\* what the plugin hands to the handler: async events with and without a
\* name, one followed by a stray byte, one whose header gives a length one
\* short of the event or shorter than a header, and an event of another kind
Submission(what, name, bytes) == [what |-> what, name |-> name, bytes |-> bytes]

Submissions ==
    {Submission("async", Some(n), AsyncBytes(Some(n), Some(<<1>>))) : n \in EventNames}
    \cup {Submission("async", Some(<<65>>), AsyncBytes(Some(<<65>>), None)),
          Submission("async", None, AsyncBytes(None, Some(<<1>>))),
          Submission("padded", Some(<<65>>), AsyncBytes(Some(<<65>>), Some(<<1>>)) \o <<7>>),
          Submission("cut", Some(<<65>>),
                     Patch(AsyncBytes(Some(<<65>>), Some(<<1>>)), 17,
                           le_bytes(Len(AsyncBytes(Some(<<65>>), Some(<<1>>))) - 1, 4))),
          Submission("tiny", Some(<<65>>),
                     Patch(AsyncBytes(Some(<<65>>), Some(<<1>>)), 17,
                           le_bytes(HeaderSize - 1, 4))),
          Submission("other", None,
                     PayloadToBytes_write(10, <<None, Some(<<65>>), None>>,
                                          NoMetadata).bytes)}

Answers ==
    {[kind |-> "none", names |-> <<>>], [kind |-> "null", names |-> <<>>],
     [kind |-> "bad_json", names |-> <<>>],
     [kind |-> "list", names |-> <<>>],
     [kind |-> "list", names |-> << <<65>> >>],
     [kind |-> "list", names |-> << <<65>>, <<195, 169>> >>]}

NoCall == [thread |-> 0, sub |-> Submission("", None, <<>>), rc |-> "", before |-> <<>>,
           after |-> <<>>]

NoRet == [rc |-> "", ptr |-> 0, empty |-> FALSE]

ThreadIdle == [pc |-> "idle", sub |-> Submission("", None, <<>>), evt |-> <<>>]

RunnerInit ==
    /\ EnvIdle
    /\ bw = Idle
    /\ ah = Idle
    /\ xk = Idle
    /\ xf = Idle
    /\ sp = Idle
    /\ fs = Idle
    /\ \E answer \in Answers :
         rq = [phase |-> "capture",
               async_events |-> AsyncPlugin_new(answer),
               event_queue |-> <<>>,
               last_event |-> None,
               th |-> [t \in Threads |-> ThreadIdle],
               calls |-> 0,
               next_id |-> 1,
               freed |-> {},
               accepted |-> <<>>,
               returned |-> <<>>,
               call |-> NoCall,
               ret |-> NoRet]

\* thread t enters the handler with sub; h is what the handler comes to
\* before the queue is locked
Entered(t, sub, h) ==
    IF h.push = <<>>
    THEN [rq EXCEPT !.calls = @ + 1,
                    !.call = [thread |-> t, sub |-> sub, rc |-> h.rc,
                              before |-> rq.event_queue, after |-> rq.event_queue]]
    ELSE [rq EXCEPT !.calls = @ + 1,
                    !.th[t] = [pc |-> "push", sub |-> sub, evt |-> h.push[1]]]

HandlerEnter(t) ==
    /\ rq.phase = "capture"
    /\ rq.th[t].pc = "idle"
    /\ rq.calls < MaxCalls
    /\ \E sub \in Submissions :
         rq' = Entered(t, sub, async_handler(rq.async_events, sub.bytes))
    /\ UNCHANGED <<envVars, bw, ah, xk, xf, sp, fs>>

\* owner.event_queue.lock().unwrap().push_back(event.to_vec()) in thread t
HandlerPush(t) ==
    /\ rq.phase = "capture"
    /\ rq.th[t].pc = "push"
    /\ rq' = [rq EXCEPT
                !.event_queue = Append(@, [id |-> rq.next_id, bytes |-> rq.th[t].evt]),
                !.accepted = Append(@, [id |-> rq.next_id, bytes |-> rq.th[t].evt]),
                !.next_id = @ + 1,
                !.th[t] = ThreadIdle,
                !.call = [thread |-> t, sub |-> rq.th[t].sub, rc |-> "SS_PLUGIN_SUCCESS",
                          before |-> rq.event_queue,
                          after |-> Append(rq.event_queue,
                                           [id |-> rq.next_id, bytes |-> rq.th[t].evt])]]
    /\ UNCHANGED <<envVars, bw, ah, xk, xf, sp, fs>>

\* the main thread after next_event with outcome n: the buffer last_event
\* held before is dropped
Taken(n) ==
    [rq EXCEPT !.event_queue = n.queue,
               !.last_event = n.last_event,
               !.freed = IF rq.last_event = None THEN @ ELSE @ \cup {rq.last_event[1].id},
               !.returned = IF n.rc = "SS_PLUGIN_SUCCESS" THEN Append(@, n.last_event[1])
                            ELSE @,
               !.ret = [rc |-> n.rc, ptr |-> n.ptr, empty |-> rq.event_queue = <<>>]]

NextEvent ==
    /\ rq.phase = "capture"
    /\ Len(rq.returned) < MaxCalls
    /\ rq' = Taken(next_event(rq.event_queue, rq.last_event))
    /\ UNCHANGED <<envVars, bw, ah, xk, xf, sp, fs>>

RunnerNext ==
    \/ \E t \in Threads : HandlerEnter(t)
    \/ \E t \in Threads : HandlerPush(t)
    \/ NextEvent

RunnerSpec == RunnerInit /\ [][RunnerNext]_vars

\* whether the plugin declared the name
Declared(name) == \E k \in 1..Len(rq.async_events) : rq.async_events[k] = name

\* the name an event in the queue carries
QueuedName(e) == parse(RawEvent_from(e.bytes), PPME_ASYNCEVENT_E).fields[2]

\* whether the submission is a whole async event with a declared name in
\* well-formed UTF-8, told from how the submission was built
Acceptable(sub) ==
    /\ sub.what \in {"async", "padded"}
    /\ sub.name # None
    /\ sub.name[1] # <<255>>
    /\ Declared(sub.name[1])

\* the bytes of the event of a submission without what follows it
EventOf(sub) ==
    IF sub.what = "padded" THEN Take(sub.bytes, Len(sub.bytes) - 1) ELSE sub.bytes

C29_QueueOrder ==
    rq.phase = "capture" =>
        /\ rq.accepted = rq.returned \o rq.event_queue
        /\ \A i, j \in 1..Len(rq.accepted) :
             rq.accepted[i].id = rq.accepted[j].id => i = j
        /\ rq.ret.rc # "" =>
             /\ rq.ret.rc \in {"SS_PLUGIN_SUCCESS", "SS_PLUGIN_TIMEOUT"}
             /\ rq.ret.rc = "SS_PLUGIN_TIMEOUT" <=> rq.ret.empty
             /\ rq.ret.rc = "SS_PLUGIN_TIMEOUT" => rq.last_event = None
             /\ rq.ret.rc = "SS_PLUGIN_SUCCESS" =>
                  /\ rq.last_event = Some(rq.returned[Len(rq.returned)])
                  /\ rq.last_event[1].id = rq.ret.ptr
                  /\ rq.ret.ptr \notin rq.freed
        /\ \A k \in 1..Len(rq.event_queue) : rq.event_queue[k].id \notin rq.freed

C29_Witness ==
    /\ rq.phase = "capture"
    /\ Len(rq.returned) = 2
    /\ rq.returned[1].bytes # rq.returned[2].bytes
    /\ rq.ret.rc = "SS_PLUGIN_SUCCESS"
    /\ rq.freed = {rq.returned[1].id}
    /\ \E t \in Threads : rq.th[t].pc = "push"

(***************************************************************************)
(* The argument of an extraction request, checked against what the field   *)
(* declares.                                                               *)
(***************************************************************************)
ExtractArgType ==
    {"None", "OptionalIndex", "OptionalKey", "RequiredIndex", "RequiredKey"}

\* ExtractFieldRequestArg
ExtractFieldRequestArg_None == [shape |-> "None"]

ExtractFieldRequestArg_Int(i) == [shape |-> "Int", int |-> i]

ExtractFieldRequestArg_String(s) == [shape |-> "String", str |-> s]

KeyOk(k) == [err |-> "", key |-> <<k>>]

KeyErr(e) == [err |-> e, key |-> <<>>]

\* ss_plugin_extract_field::key_unchecked; a null arg_key is <<>>, any
\* other one holds the bytes of the string
key_unchecked(field) ==
    IF field.arg_present = 0 THEN ExtractFieldRequestArg_None
    ELSE IF field.arg_key = None THEN ExtractFieldRequestArg_Int(field.arg_index)
    ELSE ExtractFieldRequestArg_String(field.arg_key[1])

\* a faulty check that takes an integer for a required key
key_check_intkey(k, arg_type) ==
    IF k.shape = "None"
    THEN IF arg_type \in {"RequiredIndex", "RequiredKey"} THEN KeyErr("Missing")
         ELSE KeyOk(k)
    ELSE IF k.shape = "Int"
    THEN IF arg_type = "None" THEN KeyErr("Unexpected")
         ELSE IF arg_type = "OptionalKey" THEN KeyErr("ExpectedString")
         ELSE KeyOk(k)
    ELSE IF arg_type = "None" THEN KeyErr("Unexpected")
         ELSE IF arg_type \in {"OptionalIndex", "RequiredIndex"} THEN KeyErr("ExpectedInt")
         ELSE KeyOk(k)

\* the match of ExtractField::key
key_check(k, arg_type) ==
    IF k.shape = "None"
    THEN CASE arg_type = "None" -> KeyOk(k)
           [] arg_type = "OptionalIndex" -> KeyOk(k)
           [] arg_type = "OptionalKey" -> KeyOk(k)
           [] arg_type = "RequiredIndex" -> KeyErr("Missing")
           [] arg_type = "RequiredKey" -> KeyErr("Missing")
    ELSE IF k.shape = "Int"
    THEN CASE arg_type = "None" -> KeyErr("Unexpected")
           [] arg_type = "OptionalIndex" -> KeyOk(k)
           [] arg_type = "OptionalKey" -> KeyErr("ExpectedString")
           [] arg_type = "RequiredIndex" -> KeyOk(k)
           [] arg_type = "RequiredKey" -> KeyErr("ExpectedString")
    ELSE CASE arg_type = "None" -> KeyErr("Unexpected")
           [] arg_type = "OptionalIndex" -> KeyErr("ExpectedInt")
           [] arg_type = "OptionalKey" -> KeyOk(k)
           [] arg_type = "RequiredIndex" -> KeyErr("ExpectedInt")
           [] arg_type = "RequiredKey" -> KeyOk(k)

\* ExtractField::key
key(field, arg_type) == key_check(key_unchecked(field), arg_type)

\* the requests of the host: arg_present is a flag the host may set to any
\* non-zero value, arg_index and arg_key are left over from earlier requests
\* when no argument is present
ExtractFields ==
    [arg_present : {0, 1, 2}, arg_index : {0, 7}, arg_key : {None, Some(<<>>), Some(<<107>>)}]

KeyInit ==
    /\ EnvIdle
    /\ bw = Idle
    /\ ah = Idle
    /\ rq = Idle
    /\ xf = Idle
    /\ sp = Idle
    /\ fs = Idle
    /\ \E field \in ExtractFields, arg_type \in ExtractArgType :
         xk = [phase |-> "request", field |-> field, arg_type |-> arg_type,
               out |-> KeyErr("")]

Key ==
    /\ xk.phase = "request"
    /\ xk' = [xk EXCEPT !.phase = "checked", !.out = key(xk.field, xk.arg_type)]
    /\ UNCHANGED <<envVars, bw, ah, rq, xf, sp, fs>>

KeySpec == KeyInit /\ [][Key]_vars

\* the shape of the argument of a request, by the words of the table
ShapeOf(field) ==
    IF field.arg_present = 0 THEN "None"
    ELSE IF field.arg_key = None THEN "Int"
    ELSE "String"

Accepting(shape) ==
    CASE shape = "None" -> {"None", "OptionalIndex", "OptionalKey"}
      [] shape = "Int" -> {"OptionalIndex", "RequiredIndex"}
      [] shape = "String" -> {"OptionalKey", "RequiredKey"}

Refusal(shape, arg_type) ==
    CASE shape = "None" -> "Missing"
      [] shape # "None" /\ arg_type = "None" -> "Unexpected"
      [] shape = "Int" /\ arg_type # "None" -> "ExpectedString"
      [] shape = "String" /\ arg_type # "None" -> "ExpectedInt"

\* C25: the result of ExtractField::key is fixed by the shape of the actual
\* argument (None when arg_present is 0, else Int when arg_key is null, else
\* String) and the declared argument type: an accepted argument is returned
\* with its index or string unchanged, a refused one gives Missing,
\* Unexpected, ExpectedString or ExpectedInt as the table says.
C25_KeyTable ==
    xk.phase = "checked" =>
        IF xk.arg_type \in Accepting(ShapeOf(xk.field))
        THEN /\ xk.out.err = ""
             /\ xk.out.key[1].shape = ShapeOf(xk.field)
             /\ xk.out.key[1].shape = "Int" => xk.out.key[1].int = xk.field.arg_index
             /\ xk.out.key[1].shape = "String" => xk.out.key[1].str = xk.field.arg_key[1]
        ELSE /\ xk.out.err = Refusal(ShapeOf(xk.field), xk.arg_type)
             /\ xk.out.key = <<>>

C25_Witness ==
    /\ xk.phase = "checked"
    /\ xk.arg_type = "RequiredKey"
    /\ xk.field.arg_present = 2
    /\ xk.field.arg_key = None
    /\ xk.out.err = "ExpectedString"

(***************************************************************************)
(* The default extract_fields of an extract plugin.  The plugin of the     *)
(* model counts in its context the extractions of the call and in itself   *)
(* the extractions of its life.                                            *)
(***************************************************************************)
MaxReqs == 3

\* ExtractContext::default()
ExtractContext_default == 0

FieldInfo(name, arg, func) == [name |-> name, arg |-> arg, func |-> func]

\* EXTRACT_FIELDS of the plugin: a field that gives the number of earlier
\* extractions of the call, one whose function fails, and one that wants an
\* index
EXTRACT_FIELDS ==
    <<FieldInfo("sample.seen", "None", "seen"),
      FieldInfo("sample.fail", "None", "fail"),
      FieldInfo("sample.arg", "RequiredIndex", "seen")>>

\* info.func.extract: the argument of the request is checked against the
\* declared type, the function of the field runs with the plugin and the
\* context of the request, and its value is stored in the request
extract(info, req, context, plugin) ==
    LET arg == key(req, info.arg)
    IN  IF arg.err # ""
        THEN [err |-> arg.err, context |-> context, plugin |-> plugin, res |-> <<>>]
        ELSE IF info.func = "fail"
        THEN [err |-> "extract", context |-> context + 1, plugin |-> plugin + 1,
              res |-> <<>>]
        ELSE [err |-> "", context |-> context + 1, plugin |-> plugin + 1,
              res |-> <<context>>]

\* the loop of extract_fields from request i on; done is what happened to
\* the requests before
RECURSIVE extract_loop(_, _, _, _, _)
extract_loop(fields, i, context, plugin, done) ==
    IF i > Len(fields) THEN [err |-> "", plugin |-> plugin, done |-> done]
    ELSE IF fields[i].field_id >= Len(EXTRACT_FIELDS)
    THEN [err |-> "field index out of bounds", plugin |-> plugin,
          done |-> Append(done, [field_id |-> fields[i].field_id, context |-> <<>>,
                                 err |-> "field index out of bounds", res |-> <<>>])]
    ELSE LET x == extract(EXTRACT_FIELDS[fields[i].field_id + 1], fields[i], context,
                          plugin)
             step == Append(done, [field_id |-> fields[i].field_id,
                                   context |-> <<context>>, err |-> x.err,
                                   res |-> x.res])
         IN  IF x.err # "" THEN [err |-> x.err, plugin |-> x.plugin, done |-> step]
             ELSE extract_loop(fields, i + 1, x.context, x.plugin, step)

\* a faulty extract_fields that keeps the context in the plugin
extract_fields_carried(plugin, fields) ==
    extract_loop(fields, 1, plugin, plugin, <<>>)

\* ExtractPlugin::extract_fields
extract_fields(plugin, fields) ==
    extract_loop(fields, 1, ExtractContext_default, plugin, <<>>)

\* the requests of one call: field ids in and past EXTRACT_FIELDS, with an
\* index argument or none
Request(field_id, arg_present) ==
    [field_id |-> field_id, arg_present |-> arg_present, arg_index |-> 7,
     arg_key |-> None]

Requests ==
    {Request(0, 0), Request(1, 0), Request(2, 0), Request(2, 1),
     Request(Len(EXTRACT_FIELDS), 0)}

ExtractInit ==
    /\ EnvIdle
    /\ bw = Idle
    /\ ah = Idle
    /\ rq = Idle
    /\ xk = Idle
    /\ sp = Idle
    /\ fs = Idle
    /\ xf = [phase |-> "fresh", plugin |-> 0, fields |-> <<>>, err |-> "",
             done |-> <<>>]

\* the plugin after a call of extract_fields with outcome x; the model
\* follows the first call on a plugin and one later call
Extracted(fields, x) ==
    [xf EXCEPT !.phase = IF @ = "fresh" THEN "used" ELSE "done",
               !.plugin = x.plugin, !.fields = fields, !.err = x.err,
               !.done = x.done]

ExtractFieldsCall ==
    /\ xf.phase \in {"fresh", "used"}
    /\ \E fields \in SeqsUpTo(Requests, MaxReqs) :
         xf' = Extracted(fields, extract_fields(xf.plugin, fields))
    /\ UNCHANGED <<envVars, bw, ah, rq, xk, sp, fs>>

ExtractSpec == ExtractInit /\ [][ExtractFieldsCall]_vars

\* whether a request fails: its field_id is past EXTRACT_FIELDS, its
\* argument does not fit the field, or the function of the field fails
Refused(req) ==
    \/ req.field_id \notin 0..(Len(EXTRACT_FIELDS) - 1)
    \/ /\ req.field_id \in 0..(Len(EXTRACT_FIELDS) - 1)
       /\ \/ EXTRACT_FIELDS[req.field_id + 1].func = "fail"
          \/ (EXTRACT_FIELDS[req.field_id + 1].arg = "RequiredIndex") # (req.arg_present # 0)

\* the first request of the call that fails, or one past the last
FirstRefused(fields) ==
    IF \E i \in 1..Len(fields) : Refused(fields[i])
    THEN CHOOSE i \in 1..Len(fields) :
             Refused(fields[i]) /\ \A j \in 1..(i - 1) : ~Refused(fields[j])
    ELSE Len(fields) + 1

\* C26: a call of the default extract_fields goes through the requests in
\* the order given up to the first one that fails and no further; every
\* request met finds the context as the requests before it in the same call
\* left it, the first one finds the default context whatever earlier calls
\* did; the call fails exactly when a request fails, with the error of an
\* out-of-bounds index when its field_id is not an index of EXTRACT_FIELDS.
C26_ExtractFields ==
    xf.phase \in {"used", "done"} =>
        /\ Len(xf.done) = IF FirstRefused(xf.fields) > Len(xf.fields)
                          THEN Len(xf.fields) ELSE FirstRefused(xf.fields)
        /\ \A i \in 1..Len(xf.done) :
             /\ xf.done[i].field_id = xf.fields[i].field_id
             /\ xf.done[i].field_id < Len(EXTRACT_FIELDS) =>
                  xf.done[i].context = <<ExtractContext_default + (i - 1)>>
             /\ xf.done[i].field_id >= Len(EXTRACT_FIELDS) =>
                  /\ xf.done[i].context = <<>>
                  /\ xf.err = "field index out of bounds"
             /\ i < Len(xf.done) => xf.done[i].err = ""
        /\ xf.err # "" <=> FirstRefused(xf.fields) <= Len(xf.fields)
        /\ xf.err # "" => xf.done[Len(xf.done)].err = xf.err

C26_Witness ==
    /\ xf.phase = "done"
    /\ xf.plugin = 4
    /\ xf.fields = <<Request(0, 0), Request(Len(EXTRACT_FIELDS), 0), Request(0, 0)>>
    /\ xf.err = "field index out of bounds"
    /\ Len(xf.done) = 2
    /\ xf.done[1].context = <<0>>

(***************************************************************************)
(* The storage behind the values handed to the host: three lists of        *)
(* buffers, emptied when a session starts and grown by one buffer for      *)
(* each value stored in the session.                                       *)
(***************************************************************************)
MaxGets == 3

MaxFill == 2

\* FieldStorage::default()
FieldStorage_default ==
    [byte_storage |-> <<>>, pointer_storage |-> <<>>, buffer_storage |-> <<>>]

\* FieldStorage::start: the three clear() calls
start(st) ==
    [st EXCEPT !.byte_storage = <<>>, !.pointer_storage = <<>>,
               !.buffer_storage = <<>>]

\* a faulty get_byte_storage that empties the last buffer and hands it out
\* again
get_byte_storage_reuse(st) ==
    IF st.byte_storage = <<>> THEN [st EXCEPT !.byte_storage = Append(@, <<>>)]
    ELSE [st EXCEPT !.byte_storage[Len(st.byte_storage)] = <<>>]

\* FieldStorageSession::get_byte_storage; the buffer handed out is the last
\* of byte_storage
get_byte_storage(st) ==
    [st EXCEPT !.byte_storage = Append(@, <<>>)]

\* FieldStorageSession::get_byte_and_pointer_storage
get_byte_and_pointer_storage(st) ==
    [st EXCEPT !.byte_storage = Append(@, <<>>), !.pointer_storage = Append(@, <<>>)]

\* FieldStorageSession::get_byte_and_buffer_storage
get_byte_and_buffer_storage(st) ==
    [st EXCEPT !.byte_storage = Append(@, <<>>), !.buffer_storage = Append(@, <<>>)]

StorageInit ==
    /\ EnvIdle
    /\ bw = Idle
    /\ ah = Idle
    /\ rq = Idle
    /\ xk = Idle
    /\ xf = Idle
    /\ sp = Idle
    /\ fs = [phase |-> "new", st |-> FieldStorage_default, kept |-> FieldStorage_default,
             op |-> "default", fresh |-> FALSE]

\* a new session; what the session before left is given up
Start ==
    /\ fs.phase \in {"new", "session"}
    /\ fs' = [phase |-> "session", st |-> start(fs.st), kept |-> FieldStorage_default,
              op |-> "start", fresh |-> FALSE]
    /\ UNCHANGED <<envVars, bw, ah, rq, xk, xf, sp>>

\* storage for one more value; kept is what the session had handed out
\* before
Got(op, st) == [fs EXCEPT !.st = st, !.kept = fs.st, !.op = op, !.fresh = TRUE]

GetByteStorage ==
    /\ fs.phase = "session"
    /\ Len(fs.st.byte_storage) < MaxGets
    /\ fs' = Got("get_byte_storage", get_byte_storage(fs.st))
    /\ UNCHANGED <<envVars, bw, ah, rq, xk, xf, sp>>

GetByteAndPointerStorage ==
    /\ fs.phase = "session"
    /\ Len(fs.st.byte_storage) < MaxGets
    /\ fs' = Got("get_byte_and_pointer_storage", get_byte_and_pointer_storage(fs.st))
    /\ UNCHANGED <<envVars, bw, ah, rq, xk, xf, sp>>

GetByteAndBufferStorage ==
    /\ fs.phase = "session"
    /\ Len(fs.st.byte_storage) < MaxGets
    /\ fs' = Got("get_byte_and_buffer_storage", get_byte_and_buffer_storage(fs.st))
    /\ UNCHANGED <<envVars, bw, ah, rq, xk, xf, sp>>

\* the caller fills what the last call handed out: a byte, and with it a
\* pointer or a buffer descriptor when the call gave storage for them; the
\* borrows of the buffers handed out earlier have ended
Store ==
    /\ fs.phase = "session"
    /\ fs.op \in {"get_byte_storage", "get_byte_and_pointer_storage",
                  "get_byte_and_buffer_storage"}
    /\ Len(fs.st.byte_storage[Len(fs.st.byte_storage)]) < MaxFill
    /\ LET n == Len(fs.st.byte_storage)
           at == Len(fs.st.byte_storage[n])
           bytes == [fs.st EXCEPT !.byte_storage[n] = Append(@, 65 + at)]
       IN  fs' = [fs EXCEPT
                    !.fresh = FALSE,
                    !.st = CASE fs.op = "get_byte_storage" -> bytes
                             [] fs.op = "get_byte_and_pointer_storage" ->
                                  [bytes EXCEPT
                                     !.pointer_storage[Len(fs.st.pointer_storage)] =
                                        Append(@, <<n, at>>)]
                             [] fs.op = "get_byte_and_buffer_storage" ->
                                  [bytes EXCEPT
                                     !.buffer_storage[Len(fs.st.buffer_storage)] =
                                        Append(@, <<n, at, 1>>)]]
    /\ UNCHANGED <<envVars, bw, ah, rq, xk, xf, sp>>

StorageNext ==
    \/ Start
    \/ GetByteStorage
    \/ GetByteAndPointerStorage
    \/ GetByteAndBufferStorage
    \/ Store

StorageSpec == StorageInit /\ [][StorageNext]_vars

\* whether list now is list before with added buffers behind it
Grown(before, now, added) ==
    /\ Len(now) = Len(before) + added
    /\ SubSeq(now, 1, Len(before)) = before

\* C28: a session starts with the three storages empty; each of the three
\* get calls leaves every buffer handed out before in the session in its
\* place with its content, adds one buffer to the byte storage and one to
\* the pointer or buffer storage it is for, and the buffers added are empty
\* when handed out; filling them changes no buffer handed out before.
C28_Sessions ==
    fs.phase # "idle" =>
        /\ fs.op = "start" =>
             fs.st = FieldStorage_default
        /\ fs.op \notin {"start", "default"} =>
             /\ Grown(fs.kept.byte_storage, fs.st.byte_storage, 1)
             /\ Grown(fs.kept.pointer_storage, fs.st.pointer_storage,
                      IF fs.op = "get_byte_and_pointer_storage" THEN 1 ELSE 0)
             /\ Grown(fs.kept.buffer_storage, fs.st.buffer_storage,
                      IF fs.op = "get_byte_and_buffer_storage" THEN 1 ELSE 0)
        /\ fs.fresh =>
             /\ fs.st.byte_storage[Len(fs.st.byte_storage)] = <<>>
             /\ fs.op = "get_byte_and_pointer_storage" =>
                  fs.st.pointer_storage[Len(fs.st.pointer_storage)] = <<>>
             /\ fs.op = "get_byte_and_buffer_storage" =>
                  fs.st.buffer_storage[Len(fs.st.buffer_storage)] = <<>>

C28_Witness ==
    /\ fs.phase = "session"
    /\ fs.op = "get_byte_storage"
    /\ fs.fresh
    /\ fs.st.byte_storage = <<<<65, 66>>, <<65>>, <<>>>>
    /\ fs.st.pointer_storage = <<<<<<1, 0>>, <<1, 1>>>>>>
    /\ fs.st.buffer_storage = <<<<<<2, 0, 1>>>>>>

(***************************************************************************)
(* A source plugin under capture: the instance fills a batch when asked,   *)
(* the framework hands the events of the batch to the consumer one per     *)
(* next_event call.  An event is the count of its "events remaining" text. *)
(***************************************************************************)
MaxEvents == 9

BatchOk(instance, events) == [err |-> "", instance |-> instance, events |-> events]

BatchErr(e, instance) == [err |-> e, instance |-> instance, events |-> <<>>]

\* DummyPluginInstance(usize)::next_batch: one event for each call while the
\* counter is positive, Eof after
next_batch_single(instance) ==
    IF instance > 0 THEN BatchOk(instance - 1, <<instance - 1>>)
    ELSE BatchErr("Eof", instance)

\* DummyPluginInstance(Option<usize>)::next_batch: all events in the first
\* batch, Eof after; the instance is <<n>> before the first call and <<>>
\* once taken
next_batch_all(instance) ==
    IF instance # None
    THEN BatchOk(None, [i \in 1..instance[1] |-> instance[1] - i])
    ELSE BatchErr("Eof", instance)

next_batch(kind, instance) ==
    IF kind = "single" THEN next_batch_single(instance) ELSE next_batch_all(instance)

\* what a next_event call of the consumer comes to: the batch left, the
\* instance, the next_batch calls made and the event or status
Delivery(rc, evt, batch, instance, fetched) ==
    [rc |-> rc, evt |-> evt, batch |-> batch, instance |-> instance,
     fetched |-> fetched]

\* a faulty framework that asks the plugin for a batch on every call
source_next_event_refetch(kind, instance, batch) ==
    LET b == next_batch(kind, instance)
    IN  IF b.err # "" THEN Delivery(b.err, <<>>, <<>>, b.instance, <<Len(batch)>>)
        ELSE IF b.events = <<>>
        THEN Delivery("Timeout", <<>>, <<>>, b.instance, <<Len(batch)>>)
        ELSE Delivery("", <<Head(b.events)>>, Tail(b.events), b.instance,
                      <<Len(batch)>>)

\* next_event of the framework: the next event of the batch at hand, or of
\* a new batch when that one is used up; fetched holds the number of events
\* undelivered when next_batch was called
source_next_event(kind, instance, batch) ==
    IF batch # <<>> THEN Delivery("", <<Head(batch)>>, Tail(batch), instance, <<>>)
    ELSE LET b == next_batch(kind, instance)
         IN  IF b.err # "" THEN Delivery(b.err, <<>>, <<>>, b.instance, <<0>>)
             ELSE IF b.events = <<>>
             THEN Delivery("Timeout", <<>>, <<>>, b.instance, <<0>>)
             ELSE Delivery("", <<Head(b.events)>>, Tail(b.events), b.instance, <<0>>)

\* open: the instance with n events to produce
open(kind, n) == IF kind = "single" THEN n ELSE Some(n)

SourceInit ==
    /\ EnvIdle
    /\ bw = Idle
    /\ ah = Idle
    /\ rq = Idle
    /\ xk = Idle
    /\ xf = Idle
    /\ fs = Idle
    /\ \E kind \in {"single", "all"}, n \in 0..MaxEvents :
         sp = [phase |-> "capture", kind |-> kind, size |-> n,
               instance |-> open(kind, n), batch |-> <<>>, num_batches |-> 0,
               undelivered |-> 0, delivered |-> <<>>, calls |-> 0, rc |-> "none"]

\* the capture after a next_event call with outcome d; it ends with Eof
Captured(d) ==
    [sp EXCEPT !.phase = IF d.rc = "Eof" THEN "ended" ELSE @,
               !.instance = d.instance,
               !.batch = d.batch,
               !.num_batches = @ + Len(d.fetched),
               !.undelivered = IF d.fetched = <<>> THEN @ ELSE @ + d.fetched[1],
               !.delivered = @ \o d.evt,
               !.calls = @ + 1,
               !.rc = d.rc]

SourceNextEvent ==
    /\ sp.phase = "capture"
    /\ sp.calls <= MaxEvents + 1
    /\ sp' = Captured(source_next_event(sp.kind, sp.instance, sp.batch))
    /\ UNCHANGED <<envVars, bw, ah, rq, xk, xf, fs>>

SourceSpec == SourceInit /\ [][SourceNextEvent]_vars

====
